---- MODULE Spec2Model ----
(***************************************************************************)
(* Resource lifecycle, health monitoring and navigation recovery of the    *)
(* playwright-devtools-mcp server: BrowserManager (browser-manager.js),     *)
(* BrowserHealthChecker and NavigationGuard (browser-health), and the tool  *)
(* handlers that call them.  The Playwright browser is the environment: it  *)
(* owns the contexts and pages, answers or fails the awaited calls, and may *)
(* hang or close a page or disconnect on its own.                           *)
(*                                                                         *)
(* Every asynchronous call of the code is a task.  A task runs from one     *)
(* awaited remote call to the next in one step; between two steps any other *)
(* task or the environment may run (cooperative scheduling).                *)
(***************************************************************************)
EXTENDS Integers, FiniteSets, Sequences, TLC

\* ------------------------------------------------------------------ bounds
MaxTasks == 2        \* asynchronous calls in flight at once
MaxCtx == 2          \* context ids ever allocated
MaxPages == 3        \* pages ever created through createPage
MaxBrowsers == 2     \* browser launches
MaxCount == 2        \* safeNavigate is not started on a counter above this
MaxAppends == 4      \* entries appended to the buffers of a context and not cleared
MaxClock == 2        \* Date.now() takes the values 1..MaxClock
MaxStreak == 3       \* safeFailed counts no further than this

\* config.server.maxConcurrentPages, as set with MCP_MAX_CONCURRENT_PAGES=2
\* (3 when the variable is not set)
maxConcurrentPages == 2

Tasks == 1..MaxTasks
CtxIds == 1..MaxCtx
PageIds == 1..MaxPages
BrowserIds == 1..MaxBrowsers

\* options.maxAttempts and options.forceRecreateThreshold a caller may pass
\* (0: the option is absent)
DefaultMaxAttempts == 3      \* options.maxAttempts || 3
DefaultThreshold == 2        \* options.forceRecreateThreshold || 2
NoRecreateThreshold == 999   \* browser_navigate_safe without autoRecreate
AutoRecreateThreshold == 2   \* browser_navigate_safe with autoRecreate
\* params.autoRecreate as a caller may pass it, or leave it out
AutoRecreateOpts == {"absent", "false", "true"}
MaxAttemptsOpts == {0, 2}
ThresholdOpts == {0, NoRecreateThreshold}

\* The caps of the telemetry buffers, scaled down: the code has 1000
\* (this.maxLogs), 500 (this.maxRequests) and 100 (the literal in addEntry).
\* The eviction code compares with the cap and slices by it, nothing else.
maxLogs == 2
maxRequests == 2
maxEntries == 2

\* msg.type() / request.resourceType() / entry.entryType of an appended entry
EntryTypes == {"a", "b"}

VARIABLES
  browser,            \* this.browser: 0 (null) or the handle of a launched browser
  contexts,           \* keys of this.contexts
  dataCollectors,     \* keys of this.dataCollectors
  activePages,        \* this.activePages
  navigationAttempts, \* NavigationGuard.navigationAttempts: -1 is "no entry"
  liveBrowsers,       \* environment: browsers running
  nextBrowser,        \* environment: launches so far
  ctxAlive,           \* environment: contexts open in their browser
  ctxBrowser,         \* environment: the browser a context was created in
  nextCtx,            \* context ids handed out so far
  pageSt,             \* environment: "none", "ok", "hung" or "closed" per page
  pageCtx,            \* environment: the context of a page
  nextPage,           \* pages created so far
  plainFailed,        \* history: failed browser_navigate calls per id since the
                      \* last successful one
  safeFailed,         \* history: safeNavigate calls on an id that returned
                      \* success: false since the last one that returned
                      \* success: true, counted up to MaxStreak
  task,               \* the asynchronous calls: position and locals
  logs,               \* ConsoleCollector.logs of one context
  requests,           \* NetworkCollector.requests of the same context
  entries,            \* PerformanceCollector.entries of the same context
  appended,           \* history: per buffer, the entries appended since it was
                      \* constructed or last cleared, in the order of the appends
  clock,              \* environment: Date.now()
  result              \* the last query on a buffer and the array it returned

vars == <<browser, contexts, dataCollectors, activePages, navigationAttempts,
          liveBrowsers, nextBrowser, ctxAlive, ctxBrowser, nextCtx,
          pageSt, pageCtx, nextPage, plainFailed, safeFailed, task,
          logs, requests, entries, appended, clock, result>>

bufVars == <<logs, requests, entries, appended, clock, result>>

\* ------------------------------------------------------------- the state
\* The manager, guard and environment state as one value, so that a handler
\* can be written as a function from state to state.
St ==
  [browser |-> browser, contexts |-> contexts, dataCollectors |-> dataCollectors,
   activePages |-> activePages, navigationAttempts |-> navigationAttempts,
   liveBrowsers |-> liveBrowsers, nextBrowser |-> nextBrowser,
   ctxAlive |-> ctxAlive, ctxBrowser |-> ctxBrowser, nextCtx |-> nextCtx,
   pageSt |-> pageSt, pageCtx |-> pageCtx, nextPage |-> nextPage,
   plainFailed |-> plainFailed, safeFailed |-> safeFailed]

Commit(s) ==
  /\ browser' = s.browser
  /\ contexts' = s.contexts
  /\ dataCollectors' = s.dataCollectors
  /\ activePages' = s.activePages
  /\ navigationAttempts' = s.navigationAttempts
  /\ liveBrowsers' = s.liveBrowsers
  /\ nextBrowser' = s.nextBrowser
  /\ ctxAlive' = s.ctxAlive
  /\ ctxBrowser' = s.ctxBrowser
  /\ nextCtx' = s.nextCtx
  /\ pageSt' = s.pageSt
  /\ pageCtx' = s.pageCtx
  /\ nextPage' = s.nextPage
  /\ plainFailed' = s.plainFailed
  /\ safeFailed' = s.safeFailed
  /\ UNCHANGED bufVars

NoHealth == [isHealthy |-> FALSE, pages |-> 0, activePages |-> 0, zombiePages |-> 0,
             issues |-> 0]

\* no query has returned yet
NoResult == [op |-> "none", type |-> "none", since |-> 0, limit |-> 0,
             of |-> <<>>, value |-> <<>>]

\* A task at rest.  In the state a call returns in, op, ctx, the options and
\* the result fields of its task say what the call was and what it returned;
\* the next step of any task or of the environment drops them (Rest).
IdleTask ==
  [pc |-> "idle", op |-> "none", ctx |-> 0, ret |-> "none", snap |-> {},
   br |-> 0, visited |-> {}, target |-> 0, autoHeal |-> FALSE, maxAttempts |-> 0,
   threshold |-> 0, attempts |-> 0, page |-> 0, closedPages |-> 0,
   first |-> NoHealth, health |-> NoHealth, healed |-> FALSE,
   healReason |-> "none", steps |-> {}, res |-> "none", action |-> "none",
   newCtx |-> 0, willRetry |-> FALSE, resAttempts |-> 0, suggestion |-> FALSE,
   navs |-> 0, again |-> FALSE, err |-> "none", autoRecreate |-> "none",
   dropped |-> 0]

Init ==
  /\ browser = 0
  /\ contexts = {}
  /\ dataCollectors = {}
  /\ activePages = 0
  /\ navigationAttempts = [c \in CtxIds |-> -1]
  /\ liveBrowsers = {}
  /\ nextBrowser = 0
  /\ ctxAlive = {}
  /\ ctxBrowser = [c \in CtxIds |-> 0]
  /\ nextCtx = 0
  /\ pageSt = [p \in PageIds |-> "none"]
  /\ pageCtx = [p \in PageIds |-> 0]
  /\ nextPage = 0
  /\ plainFailed = [c \in CtxIds |-> 0]
  /\ safeFailed = [c \in CtxIds |-> 0]
  /\ task = [t \in Tasks |-> IdleTask]
  /\ logs = <<>>
  /\ requests = <<>>
  /\ entries = <<>>
  /\ appended = [console |-> <<>>, network |-> <<>>, performance |-> <<>>]
  /\ clock = 1
  /\ result = NoResult

\* --------------------------------------------------------- the environment
\* context.pages(): the open pages of a context
PagesOf(s, c) == {p \in PageIds : s.pageCtx[p] = c /\ s.pageSt[p] \in {"ok", "hung"}}

\* children created through createPage that are open
OpenPages(s) == {p \in PageIds : s.pageSt[p] \in {"ok", "hung"}}

\* page.on('close'): one run of the listener
OnPageClose(n) == IF n - 1 > 0 THEN n - 1 ELSE 0

RECURSIVE Times(_, _)
\* the close listener run once for each of k pages
Times(n, k) == IF k = 0 THEN n ELSE Times(OnPageClose(n), k - 1)

\* The pages of P close; the close listener of each runs.
ClosePages(s, P) ==
  [s EXCEPT !.pageSt = [p \in PageIds |-> IF p \in P THEN "closed" ELSE s.pageSt[p]],
            !.activePages = Times(s.activePages, Cardinality(P))]

\* The browser b goes away: its pages close (their close listeners run), its
\* contexts are gone, and its 'disconnected' listener runs.
OnDisconnected(s) ==
  [s EXCEPT !.browser = 0, !.contexts = {}, !.activePages = 0]

BrowserGone(s, b) ==
  LET cs == {c \in s.ctxAlive : s.ctxBrowser[c] = b}
      ps == {p \in OpenPages(s) : s.pageCtx[p] \in cs}
      s1 == ClosePages(s, ps)
  IN OnDisconnected([s1 EXCEPT !.ctxAlive = @ \ cs, !.liveBrowsers = @ \ {b}])

\* ------------------------------------------------------- BrowserManager
\* createPage's capacity test
CapReachedMut(n) == n > maxConcurrentPages
CapReached(n) == n >= maxConcurrentPages

\* browserType.launch() resolved: this.browser is the new browser
LaunchOk(s) ==
  [s EXCEPT !.nextBrowser = @ + 1, !.liveBrowsers = @ \cup {s.nextBrowser + 1},
            !.browser = s.nextBrowser + 1]

\* newContext, the initial page, its CDP session and the close of the initial
\* page all resolved: both maps get the fresh id.  The initial page is created
\* and closed before the id is registered and never has a close listener.
RegisterContext(s, b) ==
  LET c == s.nextCtx + 1
  IN [s EXCEPT !.nextCtx = c, !.ctxAlive = @ \cup {c},
               !.ctxBrowser = [@ EXCEPT ![c] = b],
               !.contexts = @ \cup {c}, !.dataCollectors = @ \cup {c}]

\* newContext resolved and a later await of the try block rejected (the
\* initial page, its CDP session, or the close of the initial page): the id
\* generated for the call is dropped and the context stays open in the browser,
\* since the catch block only rethrows
AllocateContext(s, b) ==
  LET c == s.nextCtx + 1
  IN [s EXCEPT !.nextCtx = c, !.ctxAlive = @ \cup {c},
               !.ctxBrowser = [@ EXCEPT ![c] = b]]

\* context.newPage() resolved in createPage: the page exists and is counted
PageCreated(s, c) ==
  LET p == s.nextPage + 1
  IN [s EXCEPT !.nextPage = p, !.pageSt = [@ EXCEPT ![p] = "ok"],
               !.pageCtx = [@ EXCEPT ![p] = c],
               !.activePages = @ + 1]

\* context.close() resolved in closeContext: the pages of the context closed,
\* then both map entries are deleted
CloseContextOkMut(s, c) ==
  [s EXCEPT !.contexts = @ \ {c}, !.dataCollectors = @ \ {c}]
CloseContextOk(s, c) ==
  LET s1 == ClosePages(s, PagesOf(s, c))
  IN [s1 EXCEPT !.ctxAlive = @ \ {c}, !.contexts = @ \ {c},
                !.dataCollectors = @ \ {c}]

\* context.close() threw in closeContext: logged, nothing else
CloseContextFailed(s, c) == s

\* browser.close() resolved in cleanup: the browser is gone (its listener ran
\* before the await returned), then this.browser = null
BrowserCloseOk(s, b) ==
  LET s1 == IF b \in s.liveBrowsers THEN BrowserGone(s, b) ELSE s
  IN [s1 EXCEPT !.browser = 0]

\* the last two statements of cleanup
CleanupEnd(s) == [s EXCEPT !.activePages = 0, !.dataCollectors = {}]

\* --------------------------------------------------- BrowserHealthChecker
\* the verdict of checkContextHealth
IsHealthyMut(active, zombie) == ~(zombie > 0)
IsHealthy(active, zombie) == ~(zombie > 0 \/ active = 0)

\* The record checkContextHealth builds from the pages it enumerated: a page
\* found closed and a page whose probe fails or times out are both zombies.
HealthRecordMut(s, snap) ==
  LET active == Cardinality({p \in snap : s.pageSt[p] = "ok"})
      zombie == Cardinality({p \in snap : s.pageSt[p] = "closed"})
      ok == IsHealthy(active, zombie)
  IN [isHealthy |-> ok, pages |-> Cardinality(snap), activePages |-> active,
      zombiePages |-> zombie, issues |-> zombie + (IF ok THEN 0 ELSE 1)]
HealthRecord(s, snap) ==
  LET active == Cardinality({p \in snap : s.pageSt[p] = "ok"})
      zombie == Cardinality({p \in snap : s.pageSt[p] # "ok"})
      ok == IsHealthy(active, zombie)
  IN [isHealthy |-> ok, pages |-> Cardinality(snap), activePages |-> active,
      zombiePages |-> zombie, issues |-> zombie + (IF ok THEN 0 ELSE 1)]

\* the record of the catch block of checkContextHealth
SyntheticHealthMut == [isHealthy |-> FALSE, pages |-> 1, activePages |-> 0,
                       zombiePages |-> 1, issues |-> 1]
SyntheticHealth == [isHealthy |-> FALSE, pages |-> 0, activePages |-> 0,
                    zombiePages |-> 0, issues |-> 1]

\* the pages the loop of autoHealContext closes: open and failing the probe
HealTargetsMut(s, snap) == {p \in snap : s.pageSt[p] \in {"ok", "hung"}}
HealTargets(s, snap) == {p \in snap : s.pageSt[p] = "hung"}

\* -------------------------------------------------------- NavigationGuard
\* this.navigationAttempts.get(contextId) || 0
GetAttempts(s, c) == IF s.navigationAttempts[c] < 0 THEN 0 ELSE s.navigationAttempts[c]

OptMaxAttempts(o) == IF o = 0 THEN DefaultMaxAttempts ELSE o
OptThreshold(o) == IF o = 0 THEN DefaultThreshold ELSE o

\* the test that sends safeNavigate to forceRecreateContext
ShouldRecreateMut(attempts, threshold) == attempts + 1 >= threshold
ShouldRecreate(attempts, threshold) == attempts >= threshold

\* the test of the catch block for the last permitted attempt
LastAttemptMut(attempts, maxAttempts) == attempts >= maxAttempts
LastAttempt(attempts, maxAttempts) == attempts + 1 >= maxAttempts

\* ------------------------------------------------------- browser_navigate
\* the number of failed attempts from which browser_navigate refuses
UnstableAttempts == 2

\* the test of browser_navigate for CONTEXT_UNSTABLE
UnstableMut(attempts) == attempts > UnstableAttempts
Unstable(attempts) == attempts >= UnstableAttempts

\* ------------------------------------------------------------ the handlers
\* A task is at a label.  The labels of Awaiting are awaited remote calls (the
\* environment resolves them, actions below); every other label is code that
\* runs without suspension, one block per label (Block), up to the next await
\* or the return (Run).
Awaiting == {"launch", "newContext", "newPage", "ctxClose", "browserClose",
             "probe", "healProbe", "goto", "evaluate", "title"}

Out(s, k) == [s |-> s, k |-> k]
At(s, k, label) == Out(s, [k EXCEPT !.pc = label])

\* history: a safeNavigate call returns r on the id it was called with
Counted(s, k, r) ==
  IF k.op = "safeNavigate"
    THEN [s EXCEPT !.safeFailed =
            [@ EXCEPT ![k.ctx] = IF r = "success" THEN 0
                                 ELSE IF @ < MaxStreak THEN @ + 1 ELSE @]]
    ELSE s

\* the call returns: the locals of the call are dropped, the result stays
Return(s, k, r) ==
  Out(Counted(s, k, r), [k EXCEPT !.pc = "idle", !.res = r, !.ret = "none", !.snap = {},
                   !.br = 0, !.visited = {}, !.target = 0, !.closedPages = 0])

\* BrowserManager.createContext up to the first await: launchBrowser returns
\* the browser it has, or launches one
CreateContextBlock(s, k) ==
  IF s.browser # 0
    THEN At(s, [k EXCEPT !.br = s.browser], "newContext")
    ELSE At(s, k, "launch")

\* safeNavigate after a successful recreation: the entry of the old id is
\* deleted and the new id starts at 0
RecreatedMut(s, old, new) ==
  [s EXCEPT !.navigationAttempts = [@ EXCEPT ![new] = 0]]
Recreated(s, old, new) ==
  [s EXCEPT !.navigationAttempts = [[@ EXCEPT ![old] = -1] EXCEPT ![new] = 0]]

\* createContext returned newCtx, or threw (newCtx = 0)
CreateContextEnd(s, k) ==
  CASE k.op = "createContext" ->
         Return(s, k, IF k.newCtx # 0 THEN "ok" ELSE "error")
    [] k.op = "forceRecreate" ->
         \* forceRecreateContext: success, or the catch block
         Return(s, k, IF k.newCtx # 0 THEN "success" ELSE "failure")
    [] OTHER ->
         \* safeNavigate after forceRecreateContext
         IF k.newCtx # 0
           THEN Return(Recreated(s, k.ctx, k.newCtx),
                       [k EXCEPT !.action = "context_recreated"], "success")
           ELSE At(s, [k EXCEPT !.ret = "sn"], "checkHealth")

\* BrowserManager.createPage up to the await of context.newPage()
CreatePageBlock(s, k) ==
  IF k.ctx \notin s.contexts
    THEN At(s, [k EXCEPT !.res = "not_found", !.err = "not_found"], "createPageThrew")
  ELSE IF CapReached(s.activePages)
    THEN At(s, [k EXCEPT !.res = "capacity", !.err = "capacity"], "createPageThrew")
  ELSE At(s, [k EXCEPT !.steps = @ \cup {"newPage"}], "newPage")

\* the catch block of safeNavigate
NavigationFailed(s, k) ==
  IF LastAttempt(k.attempts, k.maxAttempts)
    THEN Return(s, [k EXCEPT !.action = "max_attempts_reached",
                             !.resAttempts = k.attempts + 1,
                             !.suggestion = TRUE], "failure")
    ELSE Return(s, [k EXCEPT !.action = "navigation_failed",
                             !.resAttempts = k.attempts + 1,
                             !.willRetry = (k.attempts + 1 < k.maxAttempts)],
                "failure")

\* browser_navigate up to its first await
NavigateBlock(s, k) ==
  LET attempts == GetAttempts(s, k.ctx)
      k1 == [k EXCEPT !.attempts = attempts]
  IN IF Unstable(attempts)
       THEN Return(s, [k1 EXCEPT !.action = "context_unstable", !.suggestion = TRUE],
                   "failure")
       ELSE At(s, k1, "createPage")

\* the catch block of browser_navigate: the counter of the guard is read again
\* and set one higher
PlainNavigationFailedMut(s, k) ==
  LET attempts == GetAttempts(s, k.ctx)
      s1 == [s EXCEPT !.navigationAttempts = [@ EXCEPT ![k.ctx] = attempts + 1],
                      !.plainFailed = [@ EXCEPT ![k.ctx] = @ + 1]]
  IN Return(s1, [k EXCEPT !.action = "navigation_failed",
                          !.resAttempts = attempts], "failure")
PlainNavigationFailed(s, k) ==
  LET attempts == GetAttempts(s, k.ctx)
      s1 == [s EXCEPT !.navigationAttempts = [@ EXCEPT ![k.ctx] = attempts + 1],
                      !.plainFailed = [@ EXCEPT ![k.ctx] = @ + 1]]
  IN Return(s1, [k EXCEPT !.action = "navigation_failed",
                          !.resAttempts = attempts + 1], "failure")

\* browser_navigate after page.title(): resetAttempts, then the result
PlainNavigationSucceeded(s, k) ==
  LET s1 == [s EXCEPT !.navigationAttempts = [@ EXCEPT ![k.ctx] = -1],
                      !.plainFailed = [@ EXCEPT ![k.ctx] = 0]]
  IN Return(s1, [k EXCEPT !.action = "navigation_success"], "success")

\* an error thrown inside the try block of a navigation is caught
Caught(s, k) ==
  IF k.op = "navigate" THEN PlainNavigationFailed(s, k) ELSE NavigationFailed(s, k)

\* BrowserManager.closeContext(target) up to the await of context.close()
CloseContextBlock(s, k) ==
  IF k.target \in s.contexts THEN At(s, k, "ctxClose") ELSE At(s, k, "closeContextEnd")

\* closeContext returned
CloseContextEnd(s, k) ==
  CASE k.op = "closeContext" -> Return(s, k, "ok")
    [] k.op = "cleanup" -> At(s, k, "cleanupNext")
    [] OTHER -> At(s, k, "createContext")

\* the for loop of cleanup over the live iterator of this.contexts (entries in
\* insertion order, which is the order of the ids), then the browser
CleanupNext(s, k) ==
  LET left == {c \in s.contexts : \A v \in k.visited : c > v}
  IN IF left # {}
       THEN LET c == CHOOSE x \in left : \A y \in left : x <= y
            IN At(s, [k EXCEPT !.target = c, !.visited = @ \cup {c}], "closeContext")
     ELSE IF s.browser # 0
       THEN At(s, [k EXCEPT !.br = s.browser], "browserClose")
     ELSE At(s, k, "cleanupEnd")

\* checkContextHealth up to its first probe: an unknown id gives the record of
\* the catch block, a context without pages gives its record at once
CheckHealthBlock(s, k) ==
  LET k1 == [k EXCEPT !.steps = @ \cup {"checkHealth"}]
  IN IF k.ctx \notin s.contexts
       THEN At(s, [k1 EXCEPT !.health = SyntheticHealth], "checkHealthEnd")
     ELSE IF PagesOf(s, k.ctx) = {}
       THEN At(s, [k1 EXCEPT !.health = HealthRecord(s, {})], "checkHealthEnd")
     ELSE At(s, [k1 EXCEPT !.snap = PagesOf(s, k.ctx)], "probe")

\* autoHealContext when its own check finds the context healthy
AlreadyHealthyMut(k) == [k EXCEPT !.healed = TRUE, !.healReason = "healthy"]
AlreadyHealthy(k) == [k EXCEPT !.healed = FALSE, !.healReason = "healthy"]

\* checkContextHealth returned health to its caller (ret)
CheckHealthEnd(s, k) ==
  CASE k.ret = "tool" ->
         \* browser_health_check
         IF ~k.health.isHealthy /\ k.autoHeal
           THEN At(s, [k EXCEPT !.first = k.health], "autoHeal")
           ELSE Return(s, [k EXCEPT !.first = k.health], "success")
    [] k.ret = "sn" ->
         \* safeNavigate
         IF ~k.health.isHealthy
           THEN At(s, [k EXCEPT !.first = k.health], "autoHeal")
           ELSE At(s, [k EXCEPT !.first = k.health], "createPage")
    [] k.ret = "healFirst" ->
         IF k.health.isHealthy
           THEN At(s, AlreadyHealthy(k), "autoHealEnd")
           ELSE At(s, k, "healLoop")
    [] OTHER ->
         \* the check of autoHealContext after it closed pages
         At(s, [k EXCEPT !.healed = k.health.isHealthy, !.healReason = "closed"],
            "autoHealEnd")

\* autoHealContext after its first check found the context unhealthy, up to
\* the probes of its loop
HealLoopBlock(s, k) ==
  IF k.ctx \notin s.contexts
    THEN At(s, [k EXCEPT !.healed = FALSE, !.healReason = "failed"], "autoHealEnd")
  ELSE IF PagesOf(s, k.ctx) = {}
    THEN At(s, [k EXCEPT !.healed = FALSE, !.healReason = "could_not"], "autoHealEnd")
  ELSE At(s, [k EXCEPT !.snap = PagesOf(s, k.ctx)], "healProbe")

\* the result safeNavigate returns when autoHealContext did not heal
HealthCheckFailedResultMut(k) == [k EXCEPT !.action = "health_check_failed"]
HealthCheckFailedResult(k) ==
  [k EXCEPT !.action = "health_check_failed", !.suggestion = TRUE]

\* autoHealContext returned to its caller
AutoHealEnd(s, k) ==
  IF k.op = "healthCheck"
    THEN Return(s, k, "success")
  ELSE IF ~k.healed
    THEN Return(s, HealthCheckFailedResult(k), "failure")
  ELSE At(s, k, "createPage")

\* safeNavigate up to its first await
SafeNavigateBlock(s, k) ==
  LET attempts == GetAttempts(s, k.ctx)
      s1 == [s EXCEPT !.navigationAttempts = [@ EXCEPT ![k.ctx] = attempts + 1]]
      k1 == [k EXCEPT !.attempts = attempts]
  IN IF ShouldRecreate(attempts, k.threshold)
       THEN At(s1, [k1 EXCEPT !.steps = @ \cup {"forceRecreate"}, !.target = k.ctx],
               "closeContext")
       ELSE At(s1, [k1 EXCEPT !.ret = "sn"], "checkHealth")

\* the code at a label that is not an await
Block(s, k) ==
  CASE k.pc = "createContext" -> CreateContextBlock(s, k)
    [] k.pc = "createContextEnd" -> CreateContextEnd(s, k)
    [] k.pc = "createPage" -> CreatePageBlock(s, k)
    [] k.pc = "createPageThrew" ->
         IF k.op = "createPage" THEN Return(s, k, k.res) ELSE Caught(s, k)
    [] k.pc = "return" -> Return(s, k, k.res)
    [] k.pc = "navigationFailed" -> Caught(s, k)
    [] k.pc = "navigate" -> NavigateBlock(s, k)
    [] k.pc = "plainSucceeded" -> PlainNavigationSucceeded(s, k)
    [] k.pc = "closeContext" -> CloseContextBlock(s, k)
    [] k.pc = "closeContextEnd" -> CloseContextEnd(s, k)
    [] k.pc = "cleanupNext" -> CleanupNext(s, k)
    [] k.pc = "cleanupEnd" -> Return(CleanupEnd(s), k, "ok")
    [] k.pc = "checkHealth" -> CheckHealthBlock(s, k)
    [] k.pc = "checkHealthEnd" -> CheckHealthEnd(s, k)
    [] k.pc = "autoHeal" ->
         At(s, [k EXCEPT !.steps = @ \cup {"autoHeal"}, !.ret = "healFirst"],
            "checkHealth")
    [] k.pc = "healLoop" -> HealLoopBlock(s, k)
    [] k.pc = "healDecide" ->
         IF k.closedPages > 0
           THEN At(s, [k EXCEPT !.ret = "healSecond"], "checkHealth")
           ELSE At(s, [k EXCEPT !.healed = FALSE, !.healReason = "could_not"],
                   "autoHealEnd")
    [] k.pc = "autoHealEnd" -> AutoHealEnd(s, k)
    [] k.pc = "safeNavigate" -> SafeNavigateBlock(s, k)

RECURSIVE Run(_, _)
\* run the task from its label to its next await or to its return
Run(s, k) ==
  IF k.pc \in Awaiting \cup {"idle"}
    THEN Out(s, k)
    ELSE LET r == Block(s, k) IN Run(r.s, r.k)

\* a return value is visible in the state of the return only
Rest(k) == IF k.pc = "idle" THEN IdleTask ELSE k

\* task t goes on from label with state s and locals k
Go(t, s, k, label) ==
  LET r == Run(s, [k EXCEPT !.pc = label])
  IN Commit(r.s) /\ task' = [u \in Tasks |-> IF u = t THEN r.k ELSE Rest(task[u])]

\* ------------------------------------------------------------------ calls
Idle(t) == task[t].pc = "idle"

\* the ids a caller can hold: every id createContext has generated so far
Known == 1..nextCtx

\* browser_launch: browserManager.createContext
CreateContext(t) ==
  /\ Idle(t)
  /\ Go(t, St, [IdleTask EXCEPT !.op = "createContext"], "createContext")

\* browserManager.createPage(c)
CreatePage(t, c) ==
  /\ Idle(t)
  /\ Go(t, St, [IdleTask EXCEPT !.op = "createPage", !.ctx = c], "createPage")

\* browser_close: browserManager.closeContext(c)
CloseContext(t, c) ==
  /\ Idle(t)
  /\ Go(t, St, [IdleTask EXCEPT !.op = "closeContext", !.ctx = c, !.target = c],
        "closeContext")

\* the caller of a closeContext(c) that has just returned calls it again
CloseContextAgain(t) ==
  /\ task[t].pc = "idle"
  /\ task[t].op = "closeContext"
  /\ Go(t, St, [IdleTask EXCEPT !.op = "closeContext", !.ctx = task[t].ctx,
                                !.target = task[t].ctx, !.again = TRUE],
        "closeContext")

\* browserManager.cleanup()
Cleanup(t) ==
  /\ Idle(t)
  /\ Go(t, St, [IdleTask EXCEPT !.op = "cleanup"], "cleanupNext")

\* browser_health_check(c, autoHeal)
HealthCheck(t, c, heal) ==
  /\ Idle(t)
  /\ Go(t, St, [IdleTask EXCEPT !.op = "healthCheck", !.ctx = c, !.autoHeal = heal,
                                !.ret = "tool"], "checkHealth")

\* browser_force_recreate: healthChecker.forceRecreateContext(c)
ForceRecreate(t, c) ==
  /\ Idle(t)
  /\ Go(t, St, [IdleTask EXCEPT !.op = "forceRecreate", !.ctx = c, !.target = c,
                                !.steps = {"forceRecreate"}], "closeContext")

\* navigationGuard.safeNavigate(c, url, {maxAttempts, forceRecreateThreshold})
CallSafeNavigate(t, c, ma, th) ==
  /\ Idle(t)
  /\ Go(t, St, [IdleTask EXCEPT !.op = "safeNavigate", !.ctx = c,
                                !.maxAttempts = OptMaxAttempts(ma),
                                !.threshold = OptThreshold(th)], "safeNavigate")

SafeNavigate(t, c, ma, th) ==
  /\ GetAttempts(St, c) <= MaxCount
  /\ CallSafeNavigate(t, c, ma, th)

\* params.autoRecreate ? 2 : 999 (a parameter left out is undefined, and
\* the server hands the arguments to the handler as they came)
ThresholdOf(autoRecreate) ==
  IF autoRecreate = "true" THEN AutoRecreateThreshold ELSE NoRecreateThreshold

\* browser_navigate_safe(c, url, maxAttempts, autoRecreate): the tool handler
\* builds the options and calls navigationGuard.safeNavigate
NavigateSafe(t, c, ma, autoRecreate) ==
  /\ Idle(t)
  /\ GetAttempts(St, c) <= MaxCount
  /\ Go(t, St, [IdleTask EXCEPT !.op = "safeNavigate", !.ctx = c,
                                !.maxAttempts = OptMaxAttempts(OptMaxAttempts(ma)),
                                !.threshold = OptThreshold(ThresholdOf(autoRecreate)),
                                !.autoRecreate = autoRecreate], "safeNavigate")

\* browser_navigate(c, url)
Navigate(t, c) ==
  /\ Idle(t)
  /\ plainFailed[c] <= MaxCount
  /\ Go(t, St, [IdleTask EXCEPT !.op = "navigate", !.ctx = c], "navigate")

\* ------------------------------------------------- awaited calls resolve
\* browserType.launch() resolves or rejects
LaunchDone(t, ok) ==
  /\ task[t].pc = "launch"
  /\ IF ok
       THEN /\ nextBrowser < MaxBrowsers
            /\ Go(t, LaunchOk(St), [task[t] EXCEPT !.br = nextBrowser + 1], "newContext")
       ELSE Go(t, St, task[t], "createContextEnd")

\* createContext fails after browser.newContext() has resolved
SetupFails(t) ==
  /\ task[t].pc = "newContext"
  /\ task[t].br \in liveBrowsers
  /\ nextCtx < MaxCtx
  /\ Go(t, AllocateContext(St, task[t].br), task[t], "createContextEnd")

\* the awaits of createContext after the launch all resolve, or
\* browser.newContext() rejects
NewContextDone(t, ok) ==
  /\ task[t].pc = "newContext"
  /\ IF ok
       THEN /\ task[t].br \in liveBrowsers
            /\ nextCtx < MaxCtx
            /\ Go(t, RegisterContext(St, task[t].br),
                  [task[t] EXCEPT !.newCtx = nextCtx + 1], "createContextEnd")
       ELSE Go(t, St, task[t], "createContextEnd")

\* context.newPage() of createPage resolves or rejects
NewPageDone(t, ok) ==
  /\ task[t].pc = "newPage"
  /\ IF ok
       THEN /\ task[t].ctx \in ctxAlive
            /\ nextPage < MaxPages
            /\ LET k == [task[t] EXCEPT !.page = nextPage + 1,
                                        !.steps = @ \cup {"pageCreated"}]
                   s == PageCreated(St, task[t].ctx)
               IN IF k.op = "createPage"
                    THEN Go(t, s, [k EXCEPT !.res = "ok"], "return")
                    ELSE Go(t, s, [k EXCEPT !.steps = @ \cup {"goto"},
                                            !.navs = @ + 1], "goto")
       ELSE Go(t, St, [task[t] EXCEPT !.res = "error", !.err = "error"],
               "createPageThrew")

\* context.close() of closeContext resolves or rejects
ContextCloseDone(t, ok) ==
  /\ task[t].pc = "ctxClose"
  /\ Go(t, IF ok THEN CloseContextOk(St, task[t].target)
                 ELSE CloseContextFailed(St, task[t].target),
        task[t], "closeContextEnd")

\* browser.close() of cleanup resolves or rejects
BrowserCloseDone(t, ok) ==
  /\ task[t].pc = "browserClose"
  /\ Go(t, IF ok THEN BrowserCloseOk(St, task[t].br) ELSE St, task[t], "cleanupEnd")

\* the probes of checkContextHealth are over (answered, failed or timed out)
ProbeDone(t) ==
  /\ task[t].pc = "probe"
  /\ Go(t, St, [task[t] EXCEPT !.health = HealthRecord(St, task[t].snap)],
        "checkHealthEnd")

\* the probes of autoHealContext are over; page.close() was called on every
\* page that failed its probe, and the pages of Q are those it closed (an
\* error of page.close() is ignored and its page is not counted)
HealProbeDone(t) ==
  /\ task[t].pc = "healProbe"
  /\ \E Q \in SUBSET HealTargets(St, task[t].snap) :
       Go(t, ClosePages(St, Q),
          [task[t] EXCEPT !.closedPages = Cardinality(Q),
                          !.dropped = activePages - ClosePages(St, Q).activePages],
          "healDecide")

\* page.goto() resolves, or rejects (also by its timeout or by the watchdog)
GotoDone(t, ok) ==
  /\ task[t].pc = "goto"
  /\ IF ok
       THEN /\ pageSt[task[t].page] = "ok"
            /\ IF task[t].op = "navigate"
                 THEN Go(t, St, [task[t] EXCEPT !.steps = @ \cup {"title"}], "title")
                 ELSE Go(t, St, [task[t] EXCEPT !.steps = @ \cup {"evaluate"}],
                         "evaluate")
       ELSE Go(t, St, [task[t] EXCEPT !.err = "error"], "navigationFailed")

\* page.evaluate() after the navigation resolves (then the counter is reset
\* and page.title() is awaited) or rejects; on a hung page it never settles
EvaluateDone(t) ==
  /\ task[t].pc = "evaluate"
  /\ pageSt[task[t].page] # "hung"
  /\ IF pageSt[task[t].page] = "ok"
       THEN Go(t, [St EXCEPT !.navigationAttempts = [@ EXCEPT ![task[t].ctx] = 0]],
               [task[t] EXCEPT !.steps = @ \cup {"title"}], "title")
       ELSE Go(t, St, [task[t] EXCEPT !.err = "error"], "navigationFailed")

\* page.title() resolves (the navigation returns success) or rejects
TitleDone(t) ==
  /\ task[t].pc = "title"
  /\ pageSt[task[t].page] # "hung"
  /\ IF pageSt[task[t].page] = "ok"
       THEN IF task[t].op = "navigate"
              THEN Go(t, St, task[t], "plainSucceeded")
              ELSE Go(t, St, [task[t] EXCEPT !.action = "navigation_success",
                                             !.resAttempts = task[t].attempts + 1,
                                             !.res = "success"], "return")
       ELSE Go(t, St, [task[t] EXCEPT !.err = "error"], "navigationFailed")

\* -------------------------------------------------------- the environment
\* a page stops answering
PageHangs(p) ==
  /\ pageSt[p] = "ok"
  /\ pageSt' = [pageSt EXCEPT ![p] = "hung"]
  /\ task' = [u \in Tasks |-> Rest(task[u])]
  /\ UNCHANGED <<browser, contexts, dataCollectors, activePages, navigationAttempts,
                 liveBrowsers, nextBrowser, ctxAlive, ctxBrowser, nextCtx,
                 pageCtx, nextPage, plainFailed, safeFailed>>
  /\ UNCHANGED bufVars

\* a page is closed from outside or crashes: its close listener runs
PageCloses(p) ==
  /\ pageSt[p] \in {"ok", "hung"}
  /\ Commit(ClosePages(St, {p}))
  /\ task' = [u \in Tasks |-> Rest(task[u])]

\* the browser is lost: its 'disconnected' listener runs
BrowserDisconnects(b) ==
  /\ b \in liveBrowsers
  /\ Commit(BrowserGone(St, b))
  /\ task' = [u \in Tasks |-> Rest(task[u])]

\* --------------------------------------------------- telemetry buffers
\* The collectors of one context (data-collector.js).  An entry is the object
\* pushed: n numbers the appends to its buffer, type is its type, resource
\* type or entry type, timestamp its Date.now().  The text and url filters
\* (contains, urlContains, status) are built like the type filter and are
\* not told apart from it.

\* array.slice(-n)
SliceLast(s, n) == IF Len(s) > n THEN SubSeq(s, Len(s) - n + 1, Len(s)) ELSE s

\* array.slice(0, n)
SliceFirst(s, n) == IF Len(s) > n THEN SubSeq(s, 1, n) ELSE s

\* if (length > max) array = array.slice(-max)
KeepRecent(s, max) == IF Len(s) > max THEN SliceLast(s, max) ELSE s

\* array.filter by type (the filter is skipped when the option is absent)
ByType(s, type) == SelectSeq(s, LAMBDA e : e.type = type)

\* array.filter(e => e.timestamp >= since)
BySince(s, since) == SelectSeq(s, LAMBDA e : e.timestamp >= since)

\* Array.prototype.sort is stable: an entry goes behind the entries that are
\* as new as it is
RECURSIVE InsertNewestFirst(_, _)
InsertNewestFirst(s, e) ==
  IF s = <<>> THEN <<e>>
  ELSE IF Head(s).timestamp >= e.timestamp
         THEN <<Head(s)>> \o InsertNewestFirst(Tail(s), e)
         ELSE <<e>> \o s

\* the sort left out
SortNewestFirstMut(s) == s

RECURSIVE SortNewestFirst(_)
\* array.sort((a, b) => b.timestamp - a.timestamp)
SortNewestFirst(s) ==
  IF s = <<>> THEN <<>>
  ELSE InsertNewestFirst(SortNewestFirst(SubSeq(s, 1, Len(s) - 1)), s[Len(s)])

\* Date.now() of an event: the clock does not run backwards
Now(dt) == clock + dt

NewEntry(buffer, type, dt) ==
  [n |-> Len(appended[buffer]) + 1, type |-> type, timestamp |-> Now(dt)]

Appended == Len(appended.console) + Len(appended.network) + Len(appended.performance)

\* the object the 'request' listener pushes: no response yet, not failed
NewRequest(type, dt) ==
  [n |-> Len(appended.network) + 1, type |-> type, timestamp |-> Now(dt),
   failed |-> FALSE, response |-> FALSE]

Appends(buffer, e, dt) ==
  /\ Appended < MaxAppends
  /\ Now(dt) <= MaxClock
  /\ clock' = Now(dt)
  /\ appended' = [appended EXCEPT ![buffer] = Append(@, e)]
  /\ result' = NoResult

\* ConsoleCollector.addLog
addLog(type, dt) ==
  /\ logs' = KeepRecent(Append(logs, NewEntry("console", type, dt)), maxLogs)
  /\ Appends("console", NewEntry("console", type, dt), dt)
  /\ UNCHANGED <<requests, entries>>

\* ConsoleCollector.getLogs: type "none", since 0 and limit 0 are the options
\* left out
getLogs(type, since, limit) ==
  LET typed == IF type # "none" THEN ByType(logs, type) ELSE logs
      recent == IF since # 0 THEN BySince(typed, since) ELSE typed
      limited == IF limit # 0 THEN SliceLast(recent, limit) ELSE recent
  IN /\ result' = [op |-> "getLogs", type |-> type, since |-> since,
                   limit |-> limit, of |-> logs, value |-> limited]
     /\ UNCHANGED <<logs, requests, entries, appended, clock>>

\* ConsoleCollector.clearLogs
clearLogs ==
  /\ logs # <<>>
  /\ logs' = <<>>
  /\ appended' = [appended EXCEPT !.console = <<>>]
  /\ result' = NoResult
  /\ UNCHANGED <<requests, entries, clock>>

\* NetworkCollector.addRequest
addRequest(type, dt) ==
  /\ requests' = KeepRecent(Append(requests, NewRequest(type, dt)), maxRequests)
  /\ Appends("network", NewRequest(type, dt), dt)
  /\ UNCHANGED <<logs, entries>>

\* NetworkCollector.getRequests.  filteredRequests starts as this.requests
\* itself and becomes a new array only when a filter runs; sort() sorts the
\* array it is called on, in place.
getRequests(type, since, limit) ==
  LET typed == IF type # "none" THEN ByType(requests, type) ELSE requests
      recent == IF since # 0 THEN BySince(typed, since) ELSE typed
      sorted == SortNewestFirst(recent)
      limited == IF limit # 0 THEN SliceFirst(sorted, limit) ELSE sorted
  IN /\ requests' = IF type = "none" /\ since = 0 THEN sorted ELSE requests
     /\ result' = [op |-> "getRequests", type |-> type, since |-> since,
                   limit |-> limit, of |-> requests, value |-> limited]
     /\ UNCHANGED <<logs, entries, appended, clock>>

\* NetworkCollector.clearRequests
clearRequests ==
  /\ requests # <<>>
  /\ requests' = <<>>
  /\ appended' = [appended EXCEPT !.network = <<>>]
  /\ result' = NoResult
  /\ UNCHANGED <<logs, entries, clock>>

\* PerformanceCollector.addEntry
addEntry(type, dt) ==
  /\ entries' = KeepRecent(Append(entries, NewEntry("performance", type, dt)), maxEntries)
  /\ Appends("performance", NewEntry("performance", type, dt), dt)
  /\ UNCHANGED <<logs, requests>>

\* PerformanceCollector.getEntries
getEntries(type) ==
  /\ result' = [op |-> "getEntries", type |-> type, since |-> 0, limit |-> 0,
                of |-> entries,
                value |-> IF type # "none" THEN ByType(entries, type) ELSE entries]
  /\ UNCHANGED <<logs, requests, entries, appended, clock>>

\* PerformanceCollector.clearMetrics
clearMetrics ==
  /\ entries # <<>>
  /\ entries' = <<>>
  /\ appended' = [appended EXCEPT !.performance = <<>>]
  /\ result' = NoResult
  /\ UNCHANGED <<logs, requests, clock>>

\* getRequests({urlContains: url, limit: 1}) of the 'response' and
\* 'requestfailed' listeners: the filter makes a new array, which is sorted
\* newest first and cut to its first entry.  The urls of the requests of the
\* context are not told apart: every stored request matches the url of the
\* event.
Lookup == SliceFirst(SortNewestFirst(requests), 1)

\* the stored object e is assigned to (the arrays hold the objects themselves)
Update(e, new) ==
  requests' = [k \in DOMAIN requests |-> IF requests[k] = e THEN new ELSE requests[k]]

\* the event of the listener and the lookup it made (request: the number of
\* the appended request the event belongs to, which the listener does not use)
Event(op, n) ==
  [op |-> op, type |-> "none", since |-> 0, limit |-> 1, of |-> requests,
   value |-> Lookup, request |-> n]

\* page.on('response') for the response to the request appended as number n:
\* request.response = {...} on the request found, if one is found
onResponse(n) ==
  /\ n \in 1..Len(appended.network)
  /\ IF Lookup # <<>>
       THEN Update(Lookup[1], [Lookup[1] EXCEPT !.response = TRUE])
       ELSE UNCHANGED requests
  /\ result' = Event("onResponse", n)
  /\ UNCHANGED <<logs, entries, appended, clock>>

\* page.on('requestfailed') for the request appended as number n:
\* requests[0].failed = true on the request found, if one is found
onRequestFailed(n) ==
  /\ n \in 1..Len(appended.network)
  /\ IF Lookup # <<>>
       THEN Update(Lookup[1], [Lookup[1] EXCEPT !.failed = TRUE])
       ELSE UNCHANGED requests
  /\ result' = Event("onRequestFailed", n)
  /\ UNCHANGED <<logs, entries, appended, clock>>

PoolVars == <<browser, contexts, dataCollectors, activePages, navigationAttempts,
              liveBrowsers, nextBrowser, ctxAlive, ctxBrowser, nextCtx,
              pageSt, pageCtx, nextPage, plainFailed, safeFailed, task>>

TypeOpts == EntryTypes \cup {"none"}
SinceOpts == 0..MaxClock
LimitOpts == 0..maxRequests

NextBuffers ==
  \/ \E type \in EntryTypes, dt \in 0..1 : addLog(type, dt) /\ UNCHANGED PoolVars
  \/ \E type \in TypeOpts, since \in SinceOpts, limit \in LimitOpts :
       getLogs(type, since, limit) /\ UNCHANGED PoolVars
  \/ clearLogs /\ UNCHANGED PoolVars
  \/ \E type \in EntryTypes, dt \in 0..1 : addRequest(type, dt) /\ UNCHANGED PoolVars
  \/ \E type \in TypeOpts, since \in SinceOpts, limit \in LimitOpts :
       getRequests(type, since, limit) /\ UNCHANGED PoolVars
  \/ clearRequests /\ UNCHANGED PoolVars
  \/ \E type \in EntryTypes, dt \in 0..1 : addEntry(type, dt) /\ UNCHANGED PoolVars
  \/ \E type \in TypeOpts : getEntries(type) /\ UNCHANGED PoolVars
  \/ clearMetrics /\ UNCHANGED PoolVars

SpecBuffers == Init /\ [][NextBuffers]_vars

\* The network collector of a context with the page listeners that feed it.
NextNetwork ==
  \/ \E type \in EntryTypes, dt \in 0..1 : addRequest(type, dt) /\ UNCHANGED PoolVars
  \/ \E n \in 1..MaxAppends : onResponse(n) /\ UNCHANGED PoolVars
  \/ \E n \in 1..MaxAppends : onRequestFailed(n) /\ UNCHANGED PoolVars
  \/ \E type \in TypeOpts, since \in SinceOpts, limit \in LimitOpts :
       getRequests(type, since, limit) /\ UNCHANGED PoolVars
  \/ clearRequests /\ UNCHANGED PoolVars

SpecNetwork == Init /\ [][NextNetwork]_vars

Next ==
  \/ \E t \in Tasks : CreateContext(t)
  \/ \E t \in Tasks, c \in Known : CreatePage(t, c)
  \/ \E t \in Tasks, c \in Known : CloseContext(t, c)
  \/ \E t \in Tasks : CloseContextAgain(t)
  \/ \E t \in Tasks : Cleanup(t)
  \/ \E t \in Tasks, c \in Known, heal \in BOOLEAN : HealthCheck(t, c, heal)
  \/ \E t \in Tasks, c \in Known : ForceRecreate(t, c)
  \/ \E t \in Tasks, c \in Known, ma \in MaxAttemptsOpts, th \in ThresholdOpts :
       SafeNavigate(t, c, ma, th)
  \/ \E t \in Tasks, c \in Known : Navigate(t, c)
  \/ \E t \in Tasks, c \in Known, ma \in MaxAttemptsOpts, autoRecreate \in AutoRecreateOpts :
       NavigateSafe(t, c, ma, autoRecreate)
  \/ \E t \in Tasks, ok \in BOOLEAN : LaunchDone(t, ok)
  \/ \E t \in Tasks, ok \in BOOLEAN : NewContextDone(t, ok)
  \/ \E t \in Tasks : SetupFails(t)
  \/ \E t \in Tasks, ok \in BOOLEAN : NewPageDone(t, ok)
  \/ \E t \in Tasks, ok \in BOOLEAN : ContextCloseDone(t, ok)
  \/ \E t \in Tasks, ok \in BOOLEAN : BrowserCloseDone(t, ok)
  \/ \E t \in Tasks : ProbeDone(t)
  \/ \E t \in Tasks : HealProbeDone(t)
  \/ \E t \in Tasks, ok \in BOOLEAN : GotoDone(t, ok)
  \/ \E t \in Tasks : EvaluateDone(t)
  \/ \E t \in Tasks : TitleDone(t)
  \/ \E p \in PageIds : PageHangs(p)
  \/ \E p \in PageIds : PageCloses(p)
  \/ \E b \in BrowserIds : BrowserDisconnects(b)
  \/ NextBuffers
  \/ NextNetwork

Spec == Init /\ [][Next]_vars

\* The resource manager alone, with calls in flight at once and one browser
\* launch.
NextPool ==
  \/ \E t \in Tasks : CreateContext(t)
  \/ \E t \in Tasks, c \in Known : CreatePage(t, c)
  \/ \E t \in Tasks, c \in Known : CloseContext(t, c)
  \/ \E t \in Tasks : Cleanup(t)
  \/ \E t \in Tasks, ok \in BOOLEAN : (ok => nextBrowser = 0) /\ LaunchDone(t, ok)
  \/ \E t \in Tasks, ok \in BOOLEAN : NewContextDone(t, ok)
  \/ \E t \in Tasks, ok \in BOOLEAN : NewPageDone(t, ok)
  \/ \E t \in Tasks, ok \in BOOLEAN : ContextCloseDone(t, ok)
  \/ \E t \in Tasks, ok \in BOOLEAN : BrowserCloseDone(t, ok)
  \/ \E p \in PageIds : PageCloses(p)
  \/ \E b \in BrowserIds : BrowserDisconnects(b)

SpecPool == Init /\ [][NextPool]_vars

\* createContext, cleanup and the loss of the browser, with calls in flight at
\* once and launches that may race
NextLaunch ==
  \/ \E t \in Tasks : CreateContext(t)
  \/ \E t \in Tasks : Cleanup(t)
  \/ \E t \in Tasks, ok \in BOOLEAN : LaunchDone(t, ok)
  \/ \E t \in Tasks, ok \in BOOLEAN : NewContextDone(t, ok)
  \/ \E t \in Tasks, ok \in BOOLEAN : ContextCloseDone(t, ok)
  \/ \E t \in Tasks, ok \in BOOLEAN : BrowserCloseDone(t, ok)
  \/ \E b \in BrowserIds : BrowserDisconnects(b)

SpecLaunch == Init /\ [][NextLaunch]_vars

\* createContext with each way it can fail, pages, and closeContext, with
\* calls in flight at once and one browser launch
NextCreate ==
  \/ \E t \in Tasks : CreateContext(t)
  \/ \E t \in Tasks, c \in Known : CreatePage(t, c)
  \/ \E t \in Tasks, c \in Known : CloseContext(t, c)
  \/ \E t \in Tasks, ok \in BOOLEAN : (ok => nextBrowser = 0) /\ LaunchDone(t, ok)
  \/ \E t \in Tasks, ok \in BOOLEAN : NewContextDone(t, ok)
  \/ \E t \in Tasks : SetupFails(t)
  \/ \E t \in Tasks, ok \in BOOLEAN : NewPageDone(t, ok)
  \/ \E t \in Tasks, ok \in BOOLEAN : ContextCloseDone(t, ok)

SpecCreate == Init /\ [][NextCreate]_vars

\* closeContext called again by its caller, one call at a time
NextTwice ==
  \/ CreateContext(1)
  \/ \E c \in Known : CreatePage(1, c)
  \/ \E c \in Known : CloseContext(1, c)
  \/ CloseContextAgain(1)
  \/ \E ok \in BOOLEAN : LaunchDone(1, ok)
  \/ \E ok \in BOOLEAN : NewContextDone(1, ok)
  \/ \E ok \in BOOLEAN : NewPageDone(1, ok)
  \/ \E ok \in BOOLEAN : ContextCloseDone(1, ok)
  \/ \E p \in PageIds : PageCloses(p)
  \/ \E b \in BrowserIds : BrowserDisconnects(b)

SpecTwice == Init /\ [][NextTwice]_vars

\* The health checker over the resource manager, one call at a time.
NextHealth ==
  \/ CreateContext(1)
  \/ \E c \in Known : CreatePage(1, c)
  \/ \E c \in Known : CloseContext(1, c)
  \/ \E c \in Known, heal \in BOOLEAN : HealthCheck(1, c, heal)
  \/ \E c \in Known : ForceRecreate(1, c)
  \/ \E ok \in BOOLEAN : LaunchDone(1, ok)
  \/ \E ok \in BOOLEAN : NewContextDone(1, ok)
  \/ \E ok \in BOOLEAN : NewPageDone(1, ok)
  \/ \E ok \in BOOLEAN : ContextCloseDone(1, ok)
  \/ ProbeDone(1)
  \/ HealProbeDone(1)
  \/ \E p \in PageIds : PageHangs(p)
  \/ \E p \in PageIds : PageCloses(p)

SpecHealth == Init /\ [][NextHealth]_vars

\* The same when the probes of checkContextHealth settle: each is raced
\* against a timer of 3000 ms, so the loop over the pages comes to its end
\* whether the pages answer or not.
\* (weak fairness of ProbeDone(1), written out: the step is possible exactly
\* when the check waits for its probes)
ProbesSettle ==
  \/ []<>(task[1].pc # "probe")
  \/ []<><<ProbeDone(1)>>_vars

SpecProbe == Init /\ [][NextHealth]_vars /\ ProbesSettle

\* The navigation guard over both, one call at a time.
NextGuard ==
  \/ CreateContext(1)
  \/ \E c \in Known : CreatePage(1, c)
  \/ \E c \in Known, ma \in MaxAttemptsOpts, th \in ThresholdOpts :
       SafeNavigate(1, c, ma, th)
  \/ \E ok \in BOOLEAN : LaunchDone(1, ok)
  \/ \E ok \in BOOLEAN : NewContextDone(1, ok)
  \/ \E ok \in BOOLEAN : NewPageDone(1, ok)
  \/ \E ok \in BOOLEAN : ContextCloseDone(1, ok)
  \/ ProbeDone(1)
  \/ HealProbeDone(1)
  \/ \E ok \in BOOLEAN : GotoDone(1, ok)
  \/ EvaluateDone(1)
  \/ TitleDone(1)
  \/ \E p \in PageIds : PageHangs(p)
  \/ \E p \in PageIds : PageCloses(p)

SpecGuard == Init /\ [][NextGuard]_vars

\* The browser_navigate_safe tool, one call at a time, maxAttempts left out.
NextSafe ==
  \/ CreateContext(1)
  \/ \E c \in Known : CreatePage(1, c)
  \/ \E c \in Known, autoRecreate \in AutoRecreateOpts : NavigateSafe(1, c, 0, autoRecreate)
  \/ \E ok \in BOOLEAN : (ok => nextBrowser = 0) /\ LaunchDone(1, ok)
  \/ \E ok \in BOOLEAN : NewContextDone(1, ok)
  \/ \E ok \in BOOLEAN : NewPageDone(1, ok)
  \/ \E ok \in BOOLEAN : ContextCloseDone(1, ok)
  \/ ProbeDone(1)
  \/ HealProbeDone(1)
  \/ \E ok \in BOOLEAN : GotoDone(1, ok)
  \/ EvaluateDone(1)
  \/ TitleDone(1)
  \/ \E p \in PageIds : PageHangs(p)
  \/ \E p \in PageIds : PageCloses(p)

SpecSafe == Init /\ [][NextSafe]_vars

\* browser_navigate alone, with calls in flight at once and one browser launch
NextPlain ==
  \/ \E t \in Tasks : CreateContext(t)
  \/ \E t \in Tasks, c \in Known : Navigate(t, c)
  \/ \E t \in Tasks, ok \in BOOLEAN : (ok => nextBrowser = 0) /\ LaunchDone(t, ok)
  \/ \E t \in Tasks, ok \in BOOLEAN : NewContextDone(t, ok)
  \/ \E t \in Tasks, ok \in BOOLEAN : NewPageDone(t, ok)
  \/ \E t \in Tasks, ok \in BOOLEAN : GotoDone(t, ok)
  \/ \E t \in Tasks : TitleDone(t)
  \/ \E p \in PageIds : PageCloses(p)

SpecPlain == Init /\ [][NextPlain]_vars

\* browser_navigate and browser_navigate_safe (without autoRecreate) on the
\* same ids, one call at a time
NextNav ==
  \/ CreateContext(1)
  \/ \E c \in Known : Navigate(1, c)
  \/ \E c \in Known : SafeNavigate(1, c, 0, NoRecreateThreshold)
  \/ \E ok \in BOOLEAN : LaunchDone(1, ok)
  \/ \E ok \in BOOLEAN : NewContextDone(1, ok)
  \/ \E ok \in BOOLEAN : NewPageDone(1, ok)
  \/ ProbeDone(1)
  \/ HealProbeDone(1)
  \/ \E ok \in BOOLEAN : GotoDone(1, ok)
  \/ EvaluateDone(1)
  \/ TitleDone(1)
  \/ \E p \in PageIds : PageHangs(p)
  \/ \E p \in PageIds : PageCloses(p)

SpecNav == Init /\ [][NextNav]_vars

\* browser_navigate and browser_navigate_safe (without autoRecreate) with
\* calls in flight at once, when no page hangs and nothing closes a page from
\* outside
NextLeak ==
  \/ CreateContext(1)
  \/ \E t \in Tasks, c \in Known : Navigate(t, c)
  \/ \E c \in Known : SafeNavigate(1, c, 0, NoRecreateThreshold)
  \/ \E ok \in BOOLEAN : (ok => nextBrowser = 0) /\ LaunchDone(1, ok)
  \/ \E ok \in BOOLEAN : NewContextDone(1, ok)
  \/ \E t \in Tasks, ok \in BOOLEAN : NewPageDone(t, ok)
  \/ \E t \in Tasks : ProbeDone(t)
  \/ \E t \in Tasks, ok \in BOOLEAN : GotoDone(t, ok)
  \/ \E t \in Tasks : EvaluateDone(t)
  \/ \E t \in Tasks : TitleDone(t)

SpecLeak == Init /\ [][NextLeak]_vars

\* safeNavigate with the default options, one call at a time, on a context
\* that may hold pages; a recreation is never refused (launch and newContext
\* resolve), and the only second context is the one a recreation makes
NextSequential ==
  \/ nextCtx = 0 /\ CreateContext(1)
  \/ \E c \in Known : CreatePage(1, c)
  \/ \E c \in Known : CallSafeNavigate(1, c, 0, 0)
  \/ LaunchDone(1, TRUE)
  \/ NewContextDone(1, TRUE)
  \/ \E ok \in BOOLEAN : NewPageDone(1, ok)
  \/ \E ok \in BOOLEAN : ContextCloseDone(1, ok)
  \/ ProbeDone(1)
  \/ HealProbeDone(1)
  \/ \E ok \in BOOLEAN : GotoDone(1, ok)
  \/ EvaluateDone(1)
  \/ TitleDone(1)
  \/ \E p \in PageIds : PageHangs(p)
  \/ \E p \in PageIds : PageCloses(p)

SpecSequential == Init /\ [][NextSequential]_vars

\* task t is suspended in createPage or in a navigation on context c
SuspendedOn(t, c) ==
  /\ task[t].pc \in Awaiting
  /\ task[t].op \in {"createPage", "navigate", "safeNavigate"}
  /\ task[t].ctx = c

\* createPage and the navigations (task 1) on one context, and a closeContext
\* or cleanup (task 2) that starts while one of them is suspended
NextRace ==
  \/ nextCtx = 0 /\ CreateContext(1)
  \/ \E c \in Known : CreatePage(1, c)
  \/ \E c \in Known : Navigate(1, c)
  \/ \E c \in Known : SafeNavigate(1, c, 0, NoRecreateThreshold)
  \/ \E c \in Known : SuspendedOn(1, c) /\ CloseContext(2, c)
  \/ \E c \in Known : SuspendedOn(1, c) /\ Cleanup(2)
  \/ \E ok \in BOOLEAN : LaunchDone(1, ok)
  \/ \E ok \in BOOLEAN : NewContextDone(1, ok)
  \/ \E ok \in BOOLEAN : NewPageDone(1, ok)
  \/ \E ok \in BOOLEAN : ContextCloseDone(2, ok)
  \/ \E ok \in BOOLEAN : BrowserCloseDone(2, ok)
  \/ ProbeDone(1)
  \/ \E ok \in BOOLEAN : GotoDone(1, ok)
  \/ EvaluateDone(1)
  \/ TitleDone(1)

SpecRace == Init /\ [][NextRace]_vars

\* Two browser_navigate_safe calls (without autoRecreate) at once on the one
\* context there is.
NextPair ==
  \/ nextCtx = 0 /\ CreateContext(1)
  \/ \E t \in Tasks, c \in Known : SafeNavigate(t, c, 0, NoRecreateThreshold)
  \/ \E ok \in BOOLEAN : LaunchDone(1, ok)
  \/ \E ok \in BOOLEAN : NewContextDone(1, ok)
  \/ \E t \in Tasks, ok \in BOOLEAN : NewPageDone(t, ok)
  \/ \E t \in Tasks : ProbeDone(t)
  \/ \E t \in Tasks : HealProbeDone(t)
  \/ \E t \in Tasks, ok \in BOOLEAN : GotoDone(t, ok)
  \/ \E t \in Tasks : EvaluateDone(t)
  \/ \E t \in Tasks : TitleDone(t)
  \/ \E p \in PageIds : PageCloses(p)
  \/ \E c \in Known : CreatePage(1, c)

SpecPair == Init /\ [][NextPair]_vars

\* an awaited call of the try block of safeNavigate settles
Settle(t) ==
  \/ \E ok \in BOOLEAN : NewPageDone(t, ok)
  \/ \E ok \in BOOLEAN : GotoDone(t, ok)
  \/ EvaluateDone(t)
  \/ TitleDone(t)

\* browser_navigate_safe without autoRecreate, one call at a time
NextWatchdog ==
  \/ CreateContext(1)
  \/ \E c \in Known : CreatePage(1, c)
  \/ \E c \in Known : SafeNavigate(1, c, 0, NoRecreateThreshold)
  \/ \E ok \in BOOLEAN : LaunchDone(1, ok)
  \/ \E ok \in BOOLEAN : NewContextDone(1, ok)
  \/ \E ok \in BOOLEAN : NewPageDone(1, ok)
  \/ ProbeDone(1)
  \/ HealProbeDone(1)
  \/ \E ok \in BOOLEAN : GotoDone(1, ok)
  \/ EvaluateDone(1)
  \/ TitleDone(1)
  \/ \E p \in PageIds : PageHangs(p)
  \/ \E p \in PageIds : PageCloses(p)

\* The same when every call awaited in the try block that can settle does:
\* page.goto is raced against a timer, and the browser answers the other calls
\* unless the page they are made on has stopped answering.
SpecWatchdog == Init /\ [][NextWatchdog]_vars /\ WF_vars(Settle(1))

\* ----------------------------------------------------------------- claims
\* task t has just returned from a call of op: its result fields are those of
\* that call and the state is the one the call returned in
Returned(t, op) == task[t].pc = "idle" /\ task[t].op = op

\* no child was ever created in context c
Fresh(c) == \A p \in PageIds : pageCtx[p] # c

\* the verdict checkContextHealth would give on context c as it is now
HealthyNow(c) == HealthRecord(St, PagesOf(St, c)).isHealthy

\* C1: in every reachable state, also with several createPage calls suspended
\* at context.newPage(), activePages is at most maxConcurrentPages and at most
\* that many children created through createPage are open.
C1_CapNeverExceeded ==
  /\ activePages <= maxConcurrentPages
  /\ Cardinality(OpenPages(St)) <= maxConcurrentPages

\* C2: after any sequence of createPage, page close, closeContext, cleanup and
\* disconnect events, activePages equals the number of open children created
\* through createPage.
C2_CounterMatchesOpenChildren == activePages = Cardinality(OpenPages(St))

\* C3: in every reachable state the context map and the collector map hold the
\* same ids.
C3_MapsAgree == contexts = dataCollectors

\* C4 as amended: with maxAttempts 3 and forceRecreateThreshold 2, a call that
\* starts with the counter below 2 (the first and the second consecutive failing
\* call) does not go to forceRecreateContext, and when its navigation fails it
\* returns navigation_failed with willRetry and its attempt number; a call that
\* starts with the counter at 2 or more (the third) goes to forceRecreateContext
\* first, and when the recreation succeeds it returns context_recreated with a
\* new id and has checked no health, created no page and navigated nowhere.
C4_RecreationOnThirdCall ==
  \A t \in Tasks :
    (/\ Returned(t, "safeNavigate")
     /\ task[t].maxAttempts = DefaultMaxAttempts
     /\ task[t].threshold = DefaultThreshold)
    => LET k == task[t]
       IN /\ (k.attempts < DefaultThreshold) => "forceRecreate" \notin k.steps
          /\ (k.attempts < DefaultThreshold /\ "goto" \in k.steps /\ k.res = "failure")
               => /\ k.action = "navigation_failed"
                  /\ k.willRetry
                  /\ k.resAttempts = k.attempts + 1
          /\ (k.attempts >= DefaultThreshold) => "forceRecreate" \in k.steps
          /\ (k.attempts >= DefaultThreshold /\ k.newCtx # 0)
               => /\ k.action = "context_recreated"
                  /\ k.newCtx # k.ctx
                  /\ k.steps = {"forceRecreate"}

\* C4 witness: a third consecutive failing call was answered by a recreation
C4_Witness ==
  \E t \in Tasks :
    /\ Returned(t, "safeNavigate")
    /\ task[t].maxAttempts = DefaultMaxAttempts
    /\ task[t].threshold = DefaultThreshold
    /\ task[t].attempts = 2
    /\ task[t].action = "context_recreated"

\* C4 as claimed: with maxAttempts 3 and forceRecreateThreshold 2 the second
\* consecutive failing call (the one that starts with the counter at 1) triggers
\* the recreation.
C4_RecreationOnSecondCall ==
  \A t \in Tasks :
    (/\ Returned(t, "safeNavigate")
     /\ task[t].maxAttempts = DefaultMaxAttempts
     /\ task[t].threshold = DefaultThreshold
     /\ task[t].attempts = 1)
    => "forceRecreate" \in task[t].steps

\* C5: safeNavigate on a registered, open context that has not been navigated
\* yet (no child before this call, counter 0) is not stopped by the health
\* check.
C5_FreshNavigateNotBlocked ==
  \A t \in Tasks :
    (/\ Returned(t, "safeNavigate")
     /\ task[t].attempts = 0
     /\ task[t].ctx \in contexts \cap ctxAlive
     /\ \A p \in PageIds : pageCtx[p] = task[t].ctx => p = task[t].page)
    => task[t].action # "health_check_failed"

\* C6: browser_health_check on a context just created, with no navigation on
\* it, reports health.isHealthy = true, with autoHeal on or off.
C6_FreshContextHealthy ==
  \A t \in Tasks :
    (/\ Returned(t, "healthCheck")
     /\ task[t].ctx \in contexts \cap ctxAlive
     /\ Fresh(task[t].ctx))
    => task[t].first.isHealthy

C8_RecreatedIsHealthy ==
  \A t \in Tasks :
    (Returned(t, "forceRecreate") /\ task[t].res = "success")
    => /\ task[t].ctx \notin contexts
       /\ task[t].newCtx # task[t].ctx
       /\ task[t].newCtx \in contexts
       /\ HealthyNow(task[t].newCtx)

\* C9: a safeNavigate call that went to forceRecreateContext had a counter at or
\* above the threshold, and when the recreation succeeded it returns
\* context_recreated with the id just registered, the old id has no counter
\* entry, the new id has counter 0, and the call checked no health, created no
\* page and navigated nowhere.
C9_EscalationShortCircuits ==
  \A t \in Tasks :
    (Returned(t, "safeNavigate") /\ "forceRecreate" \in task[t].steps)
    => LET k == task[t]
       IN /\ k.attempts >= k.threshold
          /\ (k.newCtx # 0)
               => /\ navigationAttempts[k.ctx] = -1
                  /\ navigationAttempts[k.newCtx] = 0
                  /\ k.action = "context_recreated"
                  /\ k.res = "success"
                  /\ k.newCtx = nextCtx
                  /\ k.newCtx \in contexts
                  /\ k.steps = {"forceRecreate"}
                  /\ k.page = 0

\* C9 witness: an escalation whose recreation succeeded
C9_Witness ==
  \E t \in Tasks :
    /\ Returned(t, "safeNavigate")
    /\ "forceRecreate" \in task[t].steps
    /\ task[t].newCtx # 0
    /\ navigationAttempts[task[t].newCtx] = 0

\* C10: the counter of an id is the number of its navigation attempts that
\* failed since its last success or recreation: a call that returns without
\* having attempted a navigation leaves it as it found it, a failed navigation
\* leaves it one higher, a success leaves it at 0 and a recreation leaves the
\* new id at 0.
C10_CounterCountsFailedNavigations ==
  \A t \in Tasks :
    Returned(t, "safeNavigate")
    => LET k == task[t]
       IN CASE k.action = "context_recreated" -> navigationAttempts[k.newCtx] = 0
            [] k.action = "navigation_success" -> GetAttempts(St, k.ctx) = 0
            [] "goto" \notin k.steps -> GetAttempts(St, k.ctx) = k.attempts
            [] OTHER -> GetAttempts(St, k.ctx) = k.attempts + 1

\* C11: when the navigation (page.goto) of a safeNavigate call fails, the call
\* returns max_attempts_reached with a suggestion exactly when its attempt
\* number (counter before the call + 1) is at least maxAttempts, and otherwise
\* navigation_failed with willRetry; the counter keeps the incremented value
\* and the call made one navigation attempt, no more.
C11_FailedAttemptOutcome ==
  \A t \in Tasks :
    (/\ Returned(t, "safeNavigate")
     /\ "goto" \in task[t].steps
     /\ "evaluate" \notin task[t].steps)
    => LET k == task[t]
       IN /\ k.res = "failure"
          /\ (k.action = "max_attempts_reached") <=> (k.attempts + 1 >= k.maxAttempts)
          /\ (k.action = "max_attempts_reached") => k.suggestion
          /\ (k.action # "max_attempts_reached")
               => (k.action = "navigation_failed" /\ k.willRetry)
          /\ k.resAttempts = k.attempts + 1
          /\ GetAttempts(St, k.ctx) = k.attempts + 1
          /\ k.navs = 1

\* C11 witness: a failed navigation on the last permitted attempt
C11_Witness ==
  \E t \in Tasks :
    /\ Returned(t, "safeNavigate")
    /\ "goto" \in task[t].steps
    /\ "evaluate" \notin task[t].steps
    /\ task[t].action = "max_attempts_reached"
    /\ task[t].attempts + 1 = task[t].maxAttempts

\* C12: when page.goto and the page.evaluate that follows it both succeed,
\* safeNavigate sets the counter of the id to zero and returns success with
\* attempts = counter before the call + 1; when page.goto succeeds and the
\* page.evaluate fails, the call returns a failure and the counter is not
\* reset.
C12_SuccessResetsCounter ==
  \A t \in Tasks :
    (Returned(t, "safeNavigate") /\ "evaluate" \in task[t].steps)
    => LET k == task[t]
       IN IF "title" \in k.steps
            THEN /\ k.res = "success"
                 /\ k.action = "navigation_success"
                 /\ k.resAttempts = k.attempts + 1
                 /\ GetAttempts(St, k.ctx) = 0
            ELSE /\ k.res = "failure"
                 /\ GetAttempts(St, k.ctx) = k.attempts + 1

\* the awaits of the try block of safeNavigate
Attempting == {"newPage", "goto", "evaluate", "title"}

\* C13: a safeNavigate call that has begun its attempt (child creation,
\* navigation, responsiveness probe, title read) eventually returns, even when
\* one of these remote calls never settles.
C13_SafeNavigateReturns ==
  \A t \in Tasks :
    (task[t].op = "safeNavigate" /\ task[t].pc \in Attempting) ~> (task[t].pc = "idle")

C15_CountersSeparate ==
  \A t \in Tasks :
    Returned(t, "navigate")
    => /\ (task[t].action = "navigation_failed")
            => GetAttempts(St, task[t].ctx) = task[t].attempts
       /\ (task[t].action = "context_unstable")
            => plainFailed[task[t].ctx] >= 2

\* C16: after closeContext(id) returns, id is in neither the context map nor
\* the collector map, also when context.close() threw; closeContext itself does
\* not throw.
C16_ClosedIsRemoved ==
  \A t \in Tasks :
    Returned(t, "closeContext")
    => /\ task[t].res = "ok"
       /\ task[t].ctx \notin contexts
       /\ task[t].ctx \notin dataCollectors

\* C17: a second closeContext call on the same id does not throw and no step
\* of it changes the context map, the collector map or activePages.
C17_SecondCloseChangesNothing ==
  [][\A t \in Tasks :
       (task'[t].op = "closeContext" /\ task'[t].again /\ task'[t] # task[t])
       => /\ UNCHANGED <<contexts, dataCollectors, activePages>>
          /\ task'[t].res \in {"none", "ok"}]_vars

\* C18: when the browser is lost the whole pool is cleared: after the step
\* both maps are empty, activePages is 0 and this.browser is null.
C18_DisconnectClearsPool ==
  [][(liveBrowsers' # liveBrowsers /\ liveBrowsers' \subseteq liveBrowsers)
       => /\ contexts' = {}
          /\ dataCollectors' = {}
          /\ activePages' = 0
          /\ browser' = 0]_vars

\* C19: after cleanup() has returned the pool holds no context, no collectors
\* and no browser and activePages is 0, also when a close threw.
C19_CleanupLeavesNothing ==
  \A t \in Tasks :
    Returned(t, "cleanup")
    => /\ task[t].res = "ok"
       /\ contexts = {}
       /\ dataCollectors = {}
       /\ browser = 0
       /\ activePages = 0

\* the call of k found its context registered and was suspended on it: at
\* context.newPage() or a later await of the attempt, or at a probe of its
\* health check
Entered(k) == "newPage" \in k.steps \/ k.first.pages > 0

\* a createPage or navigation call of task t returns in this step from an await
\* it entered with its id registered, and the id is no longer registered
EndsOnRemoved(t) ==
  /\ task[t].pc \in Awaiting
  /\ task'[t].pc = "idle"
  /\ task'[t].op \in {"createPage", "navigate", "safeNavigate"}
  /\ Entered(task'[t])
  /\ task'[t].ctx \notin contexts'

C21_OneRootConnection ==
  /\ Cardinality(liveBrowsers) <= 1
  /\ \A c \in contexts : ctxBrowser[c] = browser

\* C22: browser_health_check on an id that is not in the pool does not throw:
\* it returns in the step it starts in, its record is unhealthy with one issue
\* and zero total, active and unresponsive pages, and the pool is as it was.
C22_UnknownIdSyntheticRecord ==
  [][\A t \in Tasks :
       (/\ task[t].pc = "idle"
        /\ task'[t].op = "healthCheck"
        /\ task'[t].ctx \notin contexts)
       => LET h == task'[t].first
          IN /\ task'[t].pc = "idle"
             /\ task'[t].res = "success"
             /\ ~h.isHealthy
             /\ h.issues >= 1
             /\ h.pages = 0 /\ h.activePages = 0 /\ h.zombiePages = 0
             /\ UNCHANGED <<browser, contexts, dataCollectors, activePages, pageSt,
                            ctxAlive, liveBrowsers, nextCtx, nextPage>>]_vars

\* C22 witness: a health check of an id that was closed has returned
C22_Witness ==
  \E t \in Tasks :
    /\ Returned(t, "healthCheck")
    /\ task[t].ctx \notin contexts
    /\ task[t].first.issues = 1
    /\ ~task[t].first.isHealthy

\* C23: when the check autoHealContext starts with finds the context healthy,
\* autoHealContext answers healed = false with the reason "healthy", and the
\* step closes no page and leaves activePages as it was; its closing loop is
\* never entered.
C23_HealthyIsNotHealed ==
  [][\A t \in Tasks :
       (task'[t].healReason = "healthy" /\ task[t].healReason # "healthy")
       => /\ ~task'[t].healed
          /\ task[t].pc = "probe"
          /\ task'[t].health.isHealthy
          /\ pageSt' = pageSt
          /\ activePages' = activePages]_vars

\* C23 witness: autoHealContext was called on a context that its own check
\* found healthy
C23_Witness ==
  \E t \in Tasks :
    /\ Returned(t, "healthCheck")
    /\ "autoHeal" \in task[t].steps
    /\ task[t].healReason = "healthy"
    /\ task[t].health.isHealthy

\* C30 as amended: the closing loop of autoHealContext closes only open pages
\* of its context that fail its probe, never one that answers (a page whose
\* close fails stays open and is not counted); when it closed at least one
\* page, healed is the isHealthy of the health check run after the closures;
\* when it closed none, healed is false.
C30_HealClosesOnlyTheUnresponsive ==
  [][\A t \in Tasks :
       /\ (task[t].pc = "healProbe" /\ task'[t] # task[t])
            => \A p \in PageIds :
                 \/ pageSt'[p] = pageSt[p]
                 \/ p \in task[t].snap /\ pageSt[p] = "hung" /\ pageSt'[p] = "closed"
       /\ (task'[t].pc = "idle" /\ task[t].pc # "idle" /\ "autoHeal" \in task'[t].steps)
            => /\ (task'[t].healReason = "closed")
                    => task'[t].healed = task'[t].health.isHealthy
               /\ (task'[t].healReason = "could_not") => ~task'[t].healed
               /\ (task[t].pc = "healProbe" /\ pageSt' = pageSt)
                    => (task'[t].healReason = "could_not" /\ ~task'[t].healed)
               /\ (task[t].pc = "healProbe" /\ pageSt' # pageSt)
                    => task'[t].healReason = "closed"]_vars

\* C30 witness: autoHealContext closed a page that did not answer and the
\* check after it found the context healthy
C30_Witness ==
  \E t \in Tasks :
    /\ Returned(t, "healthCheck")
    /\ task[t].healReason = "closed"
    /\ task[t].healed
    /\ \E p \in PageIds : pageCtx[p] = task[t].ctx /\ pageSt[p] = "closed"

\* C30 as claimed: the closing loop closes every open page of the context that
\* fails its probe.
C30_HealClosesAllUnresponsive ==
  [][\A t \in Tasks :
       (task[t].pc = "healProbe" /\ task'[t] # task[t])
       => \A p \in task[t].snap : pageSt[p] = "hung" => pageSt'[p] = "closed"]_vars

\* ---------------------------------------------------------------- C24
\* the most recent max entries of what was appended, in append order
MostRecent(buffer, max) == SliceLast(appended[buffer], max)

\* C24: after any sequence of append, query and clear operations each buffer
\* holds at most its maximum number of entries, and they are exactly the most
\* recently appended ones in append order (overflow evicts the oldest first).
C24_BuffersHoldMostRecent ==
  /\ Len(logs) <= maxLogs /\ logs = MostRecent("console", maxLogs)
  /\ Len(requests) <= maxRequests /\ requests = MostRecent("network", maxRequests)
  /\ Len(entries) <= maxEntries /\ entries = MostRecent("performance", maxEntries)

\* the part of C24 about the console and performance buffers
C24_ConsoleAndPerformance ==
  /\ Len(logs) <= maxLogs /\ logs = MostRecent("console", maxLogs)
  /\ Len(entries) <= maxEntries /\ entries = MostRecent("performance", maxEntries)

\* the network buffer never exceeds its cap
C24_NetworkCapped == Len(requests) <= maxRequests

\* the network buffer has evicted an entry that is newer than one it kept
C24_NewerEvicted ==
  \E i \in 1..Len(appended.network), j \in 1..Len(appended.network) :
    /\ i < j
    /\ \E k \in 1..Len(requests) : requests[k] = appended.network[i]
    /\ \A k \in 1..Len(requests) : requests[k] # appended.network[j]

\* ---------------------------------------------------------------- C25
\* the entry passes the filters of the query
Matches(e, q) ==
  /\ q.type # "none" => e.type = q.type
  /\ q.since # 0 => e.timestamp >= q.since

\* positions of the queried buffer that hold a matching entry
Matching(q) == {i \in 1..Len(q.of) : Matches(q.of[i], q)}

Returns(q, i) == \E k \in 1..Len(q.value) : q.value[k] = q.of[i]

PosOf(q, k) == CHOOSE i \in 1..Len(q.of) : q.of[i] = q.value[k]

Fewest(a, b) == IF a < b THEN a ELSE b

\* the query returned limit entries, or all the matching ones if they are
\* fewer, each a matching entry of the buffer and none twice
ReturnsLimitMatching(q) ==
  /\ Len(q.value) = Fewest(q.limit, Cardinality(Matching(q)))
  /\ \A k \in 1..Len(q.value) : \E i \in Matching(q) : q.of[i] = q.value[k]
  /\ \A k \in 1..Len(q.value), l \in 1..Len(q.value) : k # l => q.value[k] # q.value[l]

\* C25: a query with limit N on a console buffer returns the last N matching
\* entries in insertion order; a query with limit N on a network buffer
\* returns the N matching entries with the newest timestamps, newest first.
C25_LimitedQueries ==
  /\ result.op = "getLogs" /\ result.limit > 0
       => /\ ReturnsLimitMatching(result)
          /\ \A k \in 1..Len(result.value), l \in 1..Len(result.value) :
               k < l => PosOf(result, k) < PosOf(result, l)
          /\ \A i \in Matching(result) :
               ~Returns(result, i)
                 => \A k \in 1..Len(result.value) : i < PosOf(result, k)
  /\ result.op = "getRequests" /\ result.limit > 0
       => /\ ReturnsLimitMatching(result)
          /\ \A k \in 1..Len(result.value), l \in 1..Len(result.value) :
               k < l => result.value[k].timestamp >= result.value[l].timestamp
          /\ \A i \in Matching(result) :
               ~Returns(result, i)
                 => \A k \in 1..Len(result.value) :
                      result.of[i].timestamp <= result.value[k].timestamp

\* a limited network query on a buffer whose newest matching entry is not its
\* first, with more matching entries than the limit
C25_Witness ==
  /\ result.op = "getRequests"
  /\ result.limit = 1
  /\ Cardinality(Matching(result)) = 2
  /\ result.of[1].timestamp < result.of[2].timestamp
  /\ result.value = <<result.of[2]>>

\* a limited console query that leaves out the older matching entry
C25_ConsoleWitness ==
  /\ result.op = "getLogs"
  /\ result.limit = 1
  /\ Cardinality(Matching(result)) = 2
  /\ result.value = <<result.of[2]>>

\* ---------------------------------------------------------------- C26
\* C26: browser_navigate_safe called without autoRecreate behaves as with
\* autoRecreate = true: a call that finds two failed navigations counted on
\* its context goes to the recreation.
C26_AbsentRecreatesAtTwo ==
  \A t \in Tasks :
    (/\ Returned(t, "safeNavigate")
     /\ task[t].autoRecreate = "absent"
     /\ task[t].attempts >= AutoRecreateThreshold)
    => "forceRecreate" \in task[t].steps

\* what the code does: only autoRecreate = true recreates at two
C26_OnlyTrueRecreates ==
  \A t \in Tasks :
    (Returned(t, "safeNavigate") /\ task[t].attempts >= AutoRecreateThreshold)
    => (task[t].autoRecreate = "true" <=> "forceRecreate" \in task[t].steps)

\* ---------------------------------------------------------------- C27
\* C27: every failure result of safeNavigate, whatever its action, carries
\* the attempt number, an action and a suggested remediation.
C27_FailureCarriesMetadata ==
  \A t \in Tasks :
    (Returned(t, "safeNavigate") /\ task[t].res = "failure")
    => /\ task[t].resAttempts > 0
       /\ task[t].action # "none"
       /\ task[t].suggestion

\* what the failure results carry: always an action; the attempt number
\* unless the action is health_check_failed; a suggestion unless the action
\* is navigation_failed
C27_WhatFailuresCarry ==
  \A t \in Tasks :
    (Returned(t, "safeNavigate") /\ task[t].res = "failure")
    => /\ task[t].action \in {"health_check_failed", "navigation_failed",
                              "max_attempts_reached"}
       /\ task[t].resAttempts > 0 <=> task[t].action # "health_check_failed"
       /\ task[t].suggestion <=> task[t].action # "navigation_failed"

\* ---------------------------------------------------------------- C28
\* the step is the start of a createPage call of task t on a registered context
CreatePageStarts(t) ==
  /\ task[t].pc = "idle"
  /\ task'[t].op = "createPage"
  /\ task'[t].ctx \in contexts

\* the step is the rejection of context.newPage() in createPage of task t
PageCreationFails(t) ==
  /\ task[t].op = "createPage" /\ task[t].pc = "newPage"
  /\ task'[t].pc = "idle" /\ task'[t].res = "error"

\* the step is the close of one open child and nothing else
OneChildCloses ==
  /\ Cardinality(OpenPages(St)) = Cardinality(OpenPages(St)') + 1
  /\ contexts' = contexts
  /\ browser' = browser

PoolUnchanged == UNCHANGED <<activePages, pageSt, pageCtx, nextPage, contexts>>

\* C28: createPage issued on a registered context when activePages equals the
\* maximum fails with the capacity error and leaves the counter and the
\* children of every context unchanged; a createPage whose context.newPage()
\* rejects leaves the counter unchanged; and after one child closes at the
\* maximum the counter is one below it, where a createPage is admitted (it
\* goes on to context.newPage() instead of failing with the capacity error).
C28_CapacityErrorLeavesPool ==
  [][/\ \A t \in Tasks :
          /\ (CreatePageStarts(t) /\ activePages = maxConcurrentPages)
               => /\ task'[t].pc = "idle" /\ task'[t].res = "capacity"
                  /\ PoolUnchanged
          /\ PageCreationFails(t) => PoolUnchanged
          /\ (CreatePageStarts(t) /\ activePages < maxConcurrentPages)
               => task'[t].pc = "newPage"
     /\ (OneChildCloses /\ activePages = maxConcurrentPages)
          => activePages' = maxConcurrentPages - 1]_vars

\* C28 witness: a createPage call was refused at the maximum
C28_Witness ==
  \E t \in Tasks :
    /\ Returned(t, "createPage")
    /\ task[t].res = "capacity"
    /\ activePages = maxConcurrentPages

\* a createPage call returned its page with the counter at the maximum after
\* an earlier child had closed
C28_WitnessAdmittedAgain ==
  \E t \in Tasks :
    /\ Returned(t, "createPage")
    /\ task[t].res = "ok"
    /\ activePages = maxConcurrentPages
    /\ \E p \in PageIds : pageSt[p] = "closed"

\* a createPage call failed in context.newPage()
C28_WitnessCreationFailed ==
  \E t \in Tasks : Returned(t, "createPage") /\ task[t].res = "error"

\* ---------------------------------------------------------------- C29
NavigationSteps == {"newPage", "pageCreated", "goto", "evaluate", "title"}

\* safeNavigate of task t returned health_check_failed
HealthCheckFailed(t) ==
  Returned(t, "safeNavigate") /\ task[t].action = "health_check_failed"

\* what C29 says of the result and of the navigation
FailsWithoutNavigating(t) ==
  /\ (/\ Returned(t, "safeNavigate")
      /\ "autoHeal" \in task[t].steps
      /\ ~task[t].healed) => HealthCheckFailed(t)
  /\ HealthCheckFailed(t)
       => /\ task[t].res = "failure"
          /\ task[t].suggestion
          /\ ~task[t].first.isHealthy
          /\ task[t].steps \cap NavigationSteps = {}

\* C29 as amended: when checkContextHealth reports the context unhealthy and
\* autoHealContext does not heal it, safeNavigate returns health_check_failed
\* with a suggestion and has created no page and attempted no navigation; no
\* step of a call that has not reached page creation creates a page or raises
\* activePages (autoHealContext may have closed pages, which lowers it).
C29_FailedHealthCheckNavigatesNothing ==
  /\ [](\A t \in Tasks : FailsWithoutNavigating(t))
  /\ [][\A t \in Tasks :
          (/\ task'[t] # task[t]
           /\ task'[t].op = "safeNavigate"
           /\ task'[t].steps \cap NavigationSteps = {})
          => /\ nextPage' = nextPage
             /\ activePages' <= activePages]_vars

\* C29 witness: a call returned health_check_failed after its autoHealContext
\* had closed a counted page
C29_Witness ==
  \E t \in Tasks :
    /\ HealthCheckFailed(t)
    /\ task[t].healReason = "closed"
    /\ task[t].dropped > 0

\* C29 as claimed: the call that returns health_check_failed leaves
\* activePages unchanged.
C29_CounterUnchanged ==
  \A t \in Tasks :
    /\ FailsWithoutNavigating(t)
    /\ HealthCheckFailed(t) => task[t].dropped = 0

\* ---------------------------------------------------------------- C31
\* the step ends the probes of a browser_health_check without autoHeal
ProbesEnd(t) ==
  /\ task[t].pc = "probe"
  /\ task[t].op = "healthCheck" /\ ~task[t].autoHeal
  /\ task'[t] # task[t]

\* C31: checkContextHealth always terminates: a check waiting for its probes
\* gets past them, whether or not the pages answer; the record it returns
\* counts every page it enumerated once, as active or as unresponsive, a page
\* that never answers as unresponsive and with an issue.
C31_CheckHealthTerminates ==
  /\ \A t \in Tasks : (task[t].pc = "probe") ~> (task[t].pc # "probe")
  /\ [][\A t \in Tasks :
          ProbesEnd(t)
          => LET h == task'[t].first
                 hung == {p \in task[t].snap : pageSt[p] = "hung"}
             IN /\ task'[t].pc = "idle"
                /\ h.pages = Cardinality(task[t].snap)
                /\ h.activePages + h.zombiePages = h.pages
                /\ h.zombiePages >= Cardinality(hung)
                /\ h.issues >= h.zombiePages
                /\ hung # {} => ~h.isHealthy]_vars

\* C31 witness: a check of a context with a page that does not answer returned
C31_Witness ==
  \E t \in Tasks :
    /\ Returned(t, "healthCheck") /\ ~task[t].autoHeal
    /\ \E p \in PagesOf(St, task[t].ctx) : pageSt[p] = "hung"
    /\ task[t].first.zombiePages > 0
    /\ task[t].first.activePages > 0

\* ---------------------------------------------------------------- C32
\* safeNavigate of task t is in flight
InFlight(t) == task[t].op = "safeNavigate" /\ task[t].pc # "idle"

\* C32: two safeNavigate calls in flight on the same id never hold the same
\* attempt number.
C32_DistinctAttemptNumbers ==
  \A t \in Tasks, u \in Tasks :
    (t # u /\ InFlight(t) /\ InFlight(u) /\ task[t].ctx = task[u].ctx)
    => task[t].attempts # task[u].attempts

\* the read and the increment are one step: a call that starts reads the
\* counter as it is and leaves it one higher
C32_ReadAndIncrementAtomic ==
  [][\A t \in Tasks :
       (task[t].pc = "idle" /\ task'[t].op = "safeNavigate" /\ task'[t].pc # "idle")
       => /\ task'[t].attempts = GetAttempts(St, task'[t].ctx)
          /\ navigationAttempts'[task'[t].ctx] = task'[t].attempts + 1]_vars

\* ---------------------------------------------------------------- C33
\* the step is the return of a browser_navigate call of task t that was not
\* rejected as unstable (it may be the step the call started in)
PlainNavigationEnds(t) ==
  /\ task'[t] # task[t]
  /\ task'[t].op = "navigate" /\ task'[t].pc = "idle"
  /\ task'[t].action # "context_unstable"

\* what getAttempts(c) gives after the step
CountAfter(c) == IF navigationAttempts'[c] = -1 THEN 0 ELSE navigationAttempts'[c]

\* C33: each failed browser_navigate raises the failure count of its id by
\* exactly one and reports the new count, which is at least 1, in
\* metadata.attempts; a successful one sets the count to 0.
C33_PlainFailureCountsOne ==
  [][\A t \in Tasks :
       PlainNavigationEnds(t)
       => LET c == task'[t].ctx
              k == task'[t]
          IN /\ k.action \in {"navigation_failed", "navigation_success"}
             /\ k.action = "navigation_failed"
                  => /\ k.res = "failure"
                     /\ CountAfter(c) = GetAttempts(St, c) + 1
                     /\ k.resAttempts = CountAfter(c)
                     /\ k.resAttempts >= 1
             /\ k.action = "navigation_success"
                  => /\ k.res = "success"
                     /\ CountAfter(c) = 0]_vars

\* C33 witness: a second failed browser_navigate reported the count 2
C33_Witness ==
  \E t \in Tasks :
    /\ Returned(t, "navigate")
    /\ task[t].action = "navigation_failed"
    /\ task[t].resAttempts = 2
    /\ GetAttempts(St, task[t].ctx) = 2

\* a successful browser_navigate after a failed one left the count at 0
C33_WitnessReset ==
  \E t \in Tasks :
    /\ Returned(t, "navigate")
    /\ task[t].action = "navigation_success"
    /\ task[t].attempts = 1
    /\ GetAttempts(St, task[t].ctx) = 0

\* ---------------------------------------------------------------- C34
\* C34: a telemetry entry is never modified after it has been appended: every
\* stored request is, field by field, the object that was appended.
C34_EntriesImmutable ==
  \A k \in 1..Len(requests) :
    \E i \in 1..Len(appended.network) : requests[k] = appended.network[i]

\* queries alone modify no entry: only the page listeners do
C34_QueriesModifyNothing ==
  [][result'.op = "getRequests"
       => \A k \in 1..Len(requests') : \E i \in 1..Len(requests) : requests'[k] = requests[i]]_vars

\* ---------------------------------------------------------------- C35
\* the step is the failure of a createContext call of task t that was waiting
\* in its try block
CreationFails(t) ==
  /\ task[t].op = "createContext" /\ task[t].pc = "newContext"
  /\ task'[t].pc = "idle" /\ task'[t].res = "error"

\* C35: if createContext fails after the browser context was allocated, the
\* allocated context is closed rather than left open, and the context map, the
\* collector map and activePages are as before the call.
C35_FailedCreationLeavesNothing ==
  [][\A t \in Tasks :
       CreationFails(t)
       => /\ ctxAlive' \subseteq ctxAlive
          /\ UNCHANGED <<contexts, dataCollectors, activePages>>]_vars

\* the part of C35 about the manager: the failure step leaves both maps and
\* activePages as they were
C35_FailedCreationLeavesMaps ==
  [][\A t \in Tasks :
       CreationFails(t) => UNCHANGED <<contexts, dataCollectors, activePages>>]_vars

\* a context is open in a live browser that the manager has no entry for and
\* no call in flight is about to close
C35_LeakedContext ==
  /\ \A t \in Tasks : task[t].pc = "idle"
  /\ \E c \in ctxAlive : c \notin contexts /\ ctxBrowser[c] \in liveBrowsers

\* ---------------------------------------------------------------- C36
\* the step is a query
IsQuery == result'.op \in {"getLogs", "getRequests", "getEntries"}

\* C36: a query never changes the buffer it reads: the stored entries and
\* their order are the same after any query, with any filters or none.
C36_QueriesLeaveBuffers ==
  [][IsQuery => UNCHANGED <<logs, requests, entries>>]_vars

\* what holds: a query leaves the console and performance buffers as they
\* are, and the network buffer too when a type or since filter is given;
\* without a filter the network buffer keeps its entries but not their order
C36_OnlyUnfilteredReorders ==
  [][IsQuery
       => /\ UNCHANGED <<logs, entries>>
          /\ (result'.type # "none" \/ result'.since # 0) => UNCHANGED requests
          /\ Len(requests') = Len(requests)
          /\ \A k \in 1..Len(requests) : \E i \in 1..Len(requests) :
               requests'[i] = requests[k]]_vars

\* ---------------------------------------------------------------- C37
\* the step is a response or requestfailed event
IsEvent == result'.op \in {"onResponse", "onRequestFailed"}

\* C37: a response or requestfailed event is recorded on the stored entry of
\* the request it belongs to and on no other entry, also when several stored
\* requests have the same url.
C37_EventOnItsOwnRequest ==
  [][IsEvent
       => \A k \in 1..Len(requests) :
            requests'[k] # requests[k] => requests[k].n = result'.request]_vars

\* what the listeners do: the event goes to the first of the newest stored
\* requests with a matching url, whichever request it belongs to
C37_EventOnNewestMatch ==
  [][IsEvent
       => \A k \in 1..Len(requests) :
            requests'[k] # requests[k]
              => \A j \in 1..Len(requests) :
                   requests[j].timestamp <= requests[k].timestamp]_vars

\* ---------------------------------------------------------------- C38
\* the step is the start of a navigation call of task t on a registered context
\* that is not turned away before createPage
NavigationStarts(t) ==
  /\ task[t].pc = "idle"
  /\ task'[t].op \in {"navigate", "safeNavigate"}
  /\ task'[t].ctx \in contexts
  /\ "newPage" \in task'[t].steps \/ task'[t].err = "capacity"

\* no step of a navigation call closes a page, and the step that creates the
\* child of the call raises activePages by one
NeverClosesItsChild ==
  /\ \A p \in PageIds : pageSt[p] = "ok" => pageSt'[p] = "ok"
  /\ activePages' >= activePages
  /\ \A t \in Tasks :
       (task[t].pc = "newPage" /\ "pageCreated" \in task'[t].steps)
       => activePages' = activePages + 1 /\ nextPage' = nextPage + 1

\* a navigation call that comes to createPage with the counter at the maximum
\* fails with the capacity error in that step and is counted as a failed
\* navigation
RefusedAtTheCap ==
  \A t \in Tasks :
    (NavigationStarts(t) /\ activePages >= maxConcurrentPages)
    => /\ task'[t].pc = "idle"
       /\ task'[t].err = "capacity"
       /\ task'[t].res = "failure"
       /\ task'[t].action \in {"navigation_failed", "max_attempts_reached"}
       /\ task'[t].resAttempts >= 1
       /\ nextPage' = nextPage

\* C38: a navigation call never closes the child it created, on success or on
\* failure, and leaves activePages one higher; so with no other close at most
\* maxConcurrentPages navigation attempts over all contexts create a child,
\* and every later attempt fails with the capacity error and is counted as a
\* failed navigation.
C38_AtMostMaxChildren ==
  /\ [][NeverClosesItsChild /\ RefusedAtTheCap]_vars
  /\ [](nextPage <= maxConcurrentPages)

\* the same without the bound on the children created
C38_ChildrenAreNeverClosed == [][NeverClosesItsChild /\ RefusedAtTheCap]_vars

\* a navigation call was refused for capacity after earlier calls had left
\* their children open
C38_WitnessRefused ==
  \E t \in Tasks :
    /\ task[t].pc = "idle" /\ task[t].op \in {"navigate", "safeNavigate"}
    /\ task[t].err = "capacity"
    /\ Cardinality(OpenPages(St)) >= maxConcurrentPages

\* ---------------------------------------------------------------- C39
\* a step in which a safeNavigate call starts
SafeNavigateStarts == task[1].pc = "idle" /\ task'[1].op = "safeNavigate"

\* The counter of an id is at most the threshold when a call on it starts, and
\* a call that found the counter at the threshold returns context_recreated.
C39_CounterBounded ==
  /\ [][SafeNavigateStarts
         => GetAttempts(St, task'[1].ctx) <= DefaultThreshold]_vars
  /\ [](Returned(1, "safeNavigate") /\ task[1].attempts = DefaultThreshold
         => task[1].action = "context_recreated")

C39_RecreatedAtThreshold ==
  /\ Returned(1, "safeNavigate")
  /\ task[1].attempts = DefaultThreshold
  /\ task[1].action = "context_recreated"

\* ---------------------------------------------------------------- C40
\* a safeNavigate call of task t has returned after a forceRecreateContext
\* that failed
RecreationFailed(t) ==
  /\ Returned(t, "safeNavigate")
  /\ "forceRecreate" \in task[t].steps
  /\ task[t].newCtx = 0

\* C40: a safeNavigate call whose forceRecreateContext fails does not throw and
\* attempts no navigation on the old id: it returns success: false, and the
\* counter of the old id keeps the incremented value.
C40_FailedRecreationNavigatesNothing ==
  \A t \in Tasks :
    RecreationFailed(t)
    => LET k == task[t]
       IN /\ k.res = "failure"
          /\ k.steps \cap NavigationSteps = {}
          /\ k.page = 0
          /\ GetAttempts(St, k.ctx) = k.attempts + 1

\* What holds: the call does not throw, and when the old id is gone from the
\* registry (closeContext removed it, or it was never there) the call returns
\* health_check_failed with the counter one higher and navigates nowhere.
C40_FailedRecreationOfClosedContext ==
  \A t \in Tasks :
    RecreationFailed(t)
    => LET k == task[t]
       IN /\ k.res \in {"success", "failure"}
          /\ k.ctx \notin contexts
               => /\ k.res = "failure"
                  /\ k.action = "health_check_failed"
                  /\ k.steps \cap NavigationSteps = {}
                  /\ k.page = 0
                  /\ GetAttempts(St, k.ctx) = k.attempts + 1

C40_Witness ==
  \E t \in Tasks :
    /\ RecreationFailed(t)
    /\ task[t].ctx \notin contexts
    /\ task[t].action = "health_check_failed"

====
